---- MODULE Spec2Model ----
(***************************************************************************)
(* The migration pipeline of migration-tools: analyze_backend.py (the      *)
(* extractor, BackendAnalyzer) and generate_golang.py (the synthesizer,    *)
(* GolangGenerator), connected by analysis_result.json.                    *)
(*                                                                         *)
(* Text.  A source file's text is a sequence of tokens: every maximal run  *)
(* of \w characters is one token (a word), every other character is a     *)
(* token of its own (" " and "\n" included).  The regular expressions of   *)
(* the extractor are evaluated over these tokens with the semantics of     *)
(* Python's re: leftmost match, alternatives in order, greedy and lazy     *)
(* quantifiers, "." not matching "\n", non-overlapping scans.  The input   *)
(* texts hold no word that merely contains one of the literal words of a   *)
(* pattern (such as "myfastify"), so a literal matches whole tokens.       *)
(*                                                                         *)
(* A Python str of the extracted model is the sequence of the tokens it    *)
(* is made of (<<"AreaController", ".", "list">>).                         *)
(***************************************************************************)
EXTENDS Naturals, Sequences, FiniteSets, TLC

VARIABLES
    fs,            \* the backend source tree analyze() reads (./backend)
    pc,            \* position of analyze_backend.py's main()
    routes,        \* analyze(): local routes
    controllers,   \* analyze(): local controllers
    middleware,    \* analyze(): local middleware
    services,      \* analyze(): local services
    tables,        \* analyze(): local tables
    deps,          \* analyze(): local deps
    result,        \* the AnalysisResult analyze() returned
    disk,          \* migration-tools/analysis_result.json
    gpc,           \* position of generate_golang.py's main()
    module_name,   \* GolangGenerator.module_name
    analysis,      \* GolangGenerator.analysis
    out_writable,  \* whether directories and files can be created in the working directory
    out_dirs,      \* directories that exist under backend-go
    out_files,     \* files written under backend-go: path -> content
    exit_code,     \* exit status of each of the two programs
    console,       \* what the two programs printed, in order
    cfg,           \* the emitted server: config.Config (JWT.Secret, Server.Env)
    db,            \* the emitted server: the users table, or a failing database
    now,           \* the emitted server: time.Now(), in hours
    request,       \* the emitted server: the request being served
    hpc,           \* the emitted server: the handler of the chain about to run
    locals,        \* the emitted server: c.Locals of the request
    response       \* the emitted server: the response sent

vars == <<fs, pc, routes, controllers, middleware, services, tables, deps,
          result, disk, gpc, module_name, analysis, out_writable, out_dirs, out_files,
          exit_code, console, cfg, db, now, request, hpc, locals, response>>

analyzerVars == <<pc, routes, controllers, middleware, services, tables, deps, result>>
generatorVars == <<gpc, module_name, analysis, out_writable, out_dirs, out_files>>
serverVars == <<cfg, db, now, request, hpc, locals, response>>
pipelineVars == <<fs, disk, exit_code, console, analyzerVars, generatorVars>>

(***************************************************************************)
(* Bounds of the inputs.                                                   *)
(***************************************************************************)
\* statements (lines) of one generated source file
MaxStmts == 2
\* files of one category directory
MaxFiles == 2

(***************************************************************************)
(* Tokens.                                                                 *)
(***************************************************************************)
\* the characters outside \w that occur in the inputs
NonWord == {".", "(", ")", "'", "\"", ",", "{", "}", "[", "]", ":", ";",
            "=", ">", "/", "*", "\\", " ", "\n"}

\* \w+ over a whole token
IsWord(t) == t \notin NonWord

\* \s
IsSpace(t) == t \in {" ", "\n"}

\* ['\"]
Quotes == {"'", "\""}

\* the words of the inputs of the form \w+Controller
ControllerWords == {"AreaController", "authController"}

\* (get|post|put|delete|patch)
Methods == {"get", "post", "put", "delete", "patch"}

\* str.upper() on a method token
Upper(m) ==
    CASE m = "get" -> "GET"
      [] m = "post" -> "POST"
      [] m = "put" -> "PUT"
      [] m = "delete" -> "DELETE"
      [] m = "patch" -> "PATCH"
      [] OTHER -> m

\* the concatenation of a sequence of sequences
RECURSIVE Flatten(_)
Flatten(ss) == IF ss = <<>> THEN <<>> ELSE Head(ss) \o Flatten(Tail(ss))

\* the first index k >= i with toks[k] a quote, 0 when there is none
RECURSIVE FirstQuote(_, _)
FirstQuote(toks, i) ==
    IF i > Len(toks) THEN 0
    ELSE IF toks[i] \in Quotes THEN i
    ELSE FirstQuote(toks, i + 1)

\* .*? followed by \w: the first word at or after i on the same line, 0 when
\* the line (or the text) ends first
RECURSIVE FirstWordOnLine(_, _)
FirstWordOnLine(toks, i) ==
    IF i > Len(toks) THEN 0
    ELSE IF toks[i] = "\n" THEN 0
    ELSE IF IsWord(toks[i]) THEN i
    ELSE FirstWordOnLine(toks, i + 1)

\* the first index k >= i with toks[k] = t on the same line, 0 when there is none
RECURSIVE FirstOnLine(_, _, _)
FirstOnLine(toks, i, t) ==
    IF i > Len(toks) THEN 0
    ELSE IF toks[i] = t THEN i
    ELSE IF toks[i] = "\n" THEN 0
    ELSE FirstOnLine(toks, i + 1, t)

\* \s* from i: the index of the first token at or after i that is not \s
RECURSIVE SkipSpace(_, _)
SkipSpace(toks, i) ==
    IF i <= Len(toks) /\ IsSpace(toks[i]) THEN SkipSpace(toks, i + 1) ELSE i

(***************************************************************************)
(* analyze_routes: the two route patterns.                                 *)
(***************************************************************************)
\* obj: the literal the pattern starts with; ctl: whether group 3 has the
\* alternative \w+Controller\.\w+ before \w+
route_patterns ==
    << [obj |-> "fastify", ctl |-> TRUE],
       [obj |-> "router", ctl |-> FALSE] >>

\* group 3 at the word h: (\w+Controller\.\w+|\w+) or (\w+)
HandlerGroup(pat, toks, h) ==
    IF /\ pat.ctl
       /\ toks[h] \in ControllerWords
       /\ h + 2 <= Len(toks)
       /\ toks[h + 1] = "."
       /\ IsWord(toks[h + 2])
    THEN [handler |-> SubSeq(toks, h, h + 2), end |-> h + 3]
    ELSE [handler |-> <<toks[h]>>, end |-> h + 1]

\* one route pattern tried at position i: the groups and the position after
\* the match, or ok = FALSE
RouteMatchAt(pat, toks, i) ==
    LET q == FirstQuote(toks, i + 5)
        h == IF q = 0 THEN 0 ELSE FirstWordOnLine(toks, q + 1)
    IN  IF /\ i + 4 <= Len(toks)
           /\ toks[i] = pat.obj
           /\ toks[i + 1] = "."
           /\ toks[i + 2] \in Methods
           /\ toks[i + 3] = "("
           /\ toks[i + 4] \in Quotes
           /\ q > i + 5
           /\ h > 0
        THEN [ok |-> TRUE,
              method |-> toks[i + 2],
              path |-> SubSeq(toks, i + 5, q - 1),
              handler |-> HandlerGroup(pat, toks, h).handler,
              end |-> HandlerGroup(pat, toks, h).end]
        ELSE [ok |-> FALSE, method |-> "", path |-> <<>>, handler |-> <<>>, end |-> i + 1]

\* re.finditer(pattern, content) from position i: the non-overlapping matches,
\* left to right
RECURSIVE RouteFindIter(_, _, _)
RouteFindIter(pat, toks, i) ==
    IF i > Len(toks) THEN <<>>
    ELSE LET m == RouteMatchAt(pat, toks, i)
         IN  IF m.ok THEN <<m>> \o RouteFindIter(pat, toks, m.end)
             ELSE RouteFindIter(pat, toks, i + 1)

\* mw.split(','): the pieces of a token sequence between its commas
RECURSIVE SplitComma(_)
SplitComma(toks) ==
    LET c == FirstOnLine(toks, 1, ",")
    IN  IF c = 0 THEN <<toks>>
        ELSE <<SubSeq(toks, 1, c - 1)>> \o SplitComma(SubSeq(toks, c + 1, Len(toks)))

\* m.strip(): without the leading and trailing whitespace tokens
RECURSIVE Strip(_)
Strip(toks) ==
    IF toks = <<>> THEN <<>>
    ELSE IF IsSpace(Head(toks)) THEN Strip(Tail(toks))
    ELSE IF IsSpace(toks[Len(toks)]) THEN Strip(SubSeq(toks, 1, Len(toks) - 1))
    ELSE toks

\* re.findall(r'preHandler:\s*\[(.*?)\]', content) from position i: group 1 of
\* every non-overlapping match
RECURSIVE PreHandlerFindAll(_, _)
PreHandlerFindAll(toks, i) ==
    IF i > Len(toks) THEN <<>>
    ELSE LET b == SkipSpace(toks, i + 2)
             e == IF b <= Len(toks) /\ toks[b] = "[" THEN FirstOnLine(toks, b + 1, "]") ELSE 0
         IN  IF /\ i + 1 <= Len(toks)
                /\ toks[i] = "preHandler"
                /\ toks[i + 1] = ":"
                /\ e > 0
             THEN <<SubSeq(toks, b + 1, e - 1)>> \o PreHandlerFindAll(toks, e + 1)
             ELSE PreHandlerFindAll(toks, i + 1)

\* lines 99-103: the middleware list of a file's text
MiddlewareList(content) ==
    IF \E i \in 1..Len(content) : content[i] = "preHandler"
    THEN LET found == PreHandlerFindAll(content, 1)
         IN  Flatten([k \in 1..Len(found) |->
                        LET parts == SplitComma(found[k])
                        IN  [j \in 1..Len(parts) |-> Strip(parts[j])]])
    ELSE <<>>

\* a replacement of the first 'Routes' only
RECURSIVE StemReplace_First(_)
StemReplace_First(stem) ==
    IF stem = <<>> THEN <<>>
    ELSE IF Head(stem) = "Routes" THEN <<"Controller">> \o Tail(stem)
    ELSE <<Head(stem)>> \o StemReplace_First(Tail(stem))

\* route_file.stem.replace('Routes', 'Controller'); a stem is the sequence of
\* its parts, 'Routes' being a part of its own wherever the name holds it
RECURSIVE StemReplace(_)
StemReplace(stem) ==
    IF stem = <<>> THEN <<>>
    ELSE <<IF Head(stem) = "Routes" THEN "Controller" ELSE Head(stem)>>
         \o StemReplace(Tail(stem))

\* len(match.groups()): both route patterns have three groups
RouteGroups == 3

\* line 96: match.group(3) if len(match.groups()) >= 3 else "unknown"
HandlerOf(m) == IF RouteGroups >= 3 THEN m.handler ELSE <<"unknown">>

\* lines 91-111: the Routes one pattern appends for one file
RoutesOfPattern(pat, file) ==
    LET ms == RouteFindIter(pat, file.content, 1)
    IN  [k \in 1..Len(ms) |->
            [method |-> Upper(ms[k].method),
             path |-> ms[k].path,
             handler |-> HandlerOf(ms[k]),
             middleware |-> MiddlewareList(file.content),
             controller |-> StemReplace(file.stem)]]

\* a sequence without the later occurrences of its elements
RECURSIVE Distinct(_)
Distinct(xs) ==
    IF xs = <<>> THEN <<>>
    ELSE LET front == Distinct(SubSeq(xs, 1, Len(xs) - 1))
         IN  IF \E i \in 1..Len(front) : front[i] = xs[Len(xs)]
             THEN front
             ELSE Append(front, xs[Len(xs)])

\* an extraction that keeps one Route of every registration
RoutesOfFile_Distinct(file) ==
    Distinct(Flatten([p \in 1..Len(route_patterns) |-> RoutesOfPattern(route_patterns[p], file)]))

\* lines 81-111: the Routes appended for one file, pattern after pattern
RoutesOfFile(file) ==
    Flatten([p \in 1..Len(route_patterns) |-> RoutesOfPattern(route_patterns[p], file)])

(***************************************************************************)
(* Export and table patterns: sequences of elements tried at a position.   *)
(* lit: a literal word; litci: a literal word under re.IGNORECASE;         *)
(* sp1: \s+; sp0: \s*; cap: the group (\w+); eq: the character "=".        *)
(***************************************************************************)
Lit(w) == [k |-> "lit", w |-> w]
LitCI(w) == [k |-> "litci", w |-> w]
Sp1 == [k |-> "sp1", w |-> ""]
Sp0 == [k |-> "sp0", w |-> ""]
Cap == [k |-> "cap", w |-> ""]

\* str.lower() on the words the case-insensitive pattern names
Lower(t) ==
    CASE t \in {"CREATE", "Create"} -> "create"
      [] t \in {"TABLE", "Table"} -> "table"
      [] t = "IF" -> "if"
      [] t = "NOT" -> "not"
      [] t = "EXISTS" -> "exists"
      [] OTHER -> t

\* the elements matched one after the other from position i; cap is the
\* group captured so far
RECURSIVE MatchElems(_, _, _, _)
MatchElems(elems, toks, i, cap) ==
    IF elems = <<>> THEN [ok |-> TRUE, cap |-> cap, end |-> i]
    ELSE LET e == Head(elems)
             no == [ok |-> FALSE, cap |-> cap, end |-> i]
         IN  CASE e.k = "sp0" -> MatchElems(Tail(elems), toks, SkipSpace(toks, i), cap)
               [] e.k = "sp1" ->
                    IF i <= Len(toks) /\ IsSpace(toks[i])
                    THEN MatchElems(Tail(elems), toks, SkipSpace(toks, i), cap)
                    ELSE no
               [] e.k = "lit" ->
                    IF i <= Len(toks) /\ toks[i] = e.w
                    THEN MatchElems(Tail(elems), toks, i + 1, cap)
                    ELSE no
               [] e.k = "litci" ->
                    IF i <= Len(toks) /\ Lower(toks[i]) = e.w
                    THEN MatchElems(Tail(elems), toks, i + 1, cap)
                    ELSE no
               [] e.k = "cap" ->
                    IF i <= Len(toks) /\ IsWord(toks[i])
                    THEN MatchElems(Tail(elems), toks, i + 1, toks[i])
                    ELSE no

\* a pattern is the sequence of its alternatives, tried in order at a
\* position (an optional group: with it first, then without it)
RECURSIVE MatchAlts(_, _, _)
MatchAlts(alts, toks, i) ==
    IF alts = <<>> THEN [ok |-> FALSE, cap |-> "", end |-> i]
    ELSE LET m == MatchElems(Head(alts), toks, i, "")
         IN  IF m.ok THEN m ELSE MatchAlts(Tail(alts), toks, i)

\* re.findall(pattern, content) from position i: group 1 of every
\* non-overlapping match, left to right
RECURSIVE FindAll(_, _, _)
FindAll(alts, toks, i) ==
    IF i > Len(toks) THEN <<>>
    ELSE LET m == MatchAlts(alts, toks, i)
         IN  IF m.ok THEN <<m.cap>> \o FindAll(alts, toks, m.end)
             ELSE FindAll(alts, toks, i + 1)

\* analyze_controllers, lines 130-134
controller_patterns ==
    << << <<Lit("export"), Sp1, Lit("async"), Sp1, Lit("function"), Sp1, Cap>> >>,
       << <<Lit("export"), Sp1, Lit("const"), Sp1, Cap, Sp0, Lit("="), Sp0, Lit("async")>> >>,
       << <<Lit("export"), Sp1, Lit("function"), Sp1, Cap>> >> >>

\* analyze_services, lines 186-190
service_patterns ==
    << << <<Lit("export"), Sp1, Lit("async"), Sp1, Lit("function"), Sp1, Cap>>,
          <<Lit("export"), Sp1, Lit("function"), Sp1, Cap>> >>,
       << <<Lit("export"), Sp1, Lit("const"), Sp1, Cap, Sp0, Lit("=")>> >>,
       << <<Lit("export"), Sp1, Lit("class"), Sp1, Cap>> >> >>

\* lines 218 and 225: CREATE\s+TABLE\s+(?:IF\s+NOT\s+EXISTS\s+)?(\w+), re.IGNORECASE
table_pattern ==
    << <<LitCI("create"), Sp1, LitCI("table"), Sp1,
         LitCI("if"), Sp1, LitCI("not"), Sp1, LitCI("exists"), Sp1, Cap>>,
       <<LitCI("create"), Sp1, LitCI("table"), Sp1, Cap>> >>

\* lines 136-139 and 192-195: functions.extend(matches), pattern after pattern
ExportedFunctions(patterns, content) ==
    Flatten([p \in 1..Len(patterns) |-> FindAll(patterns[p], content, 1)])

\* the elements of a sequence
Range(s) == {s[i] : i \in 1..Len(s)}

\* list(set(xs)): the orders in which a set's elements can come out
ListOfSet(S) ==
    {o \in [1..Cardinality(S) -> S] : \A i, j \in 1..Cardinality(S) : i # j => o[i] # o[j]}

\* analyze_middleware, line 162: re.search(r'/\*\*\s*\n\s*\*\s*(.+?)\n', content);
\* the match tried at position i, group 1 or ok = FALSE
DescriptionAt(toks, i) ==
    LET star == SkipSpace(toks, i + 3)
        \* \s* is greedy and gives back what (.+?)\n needs: the group starts
        \* at the last position of the whitespace run from which a token
        \* other than "\n" and a later "\n" on its line follow
        run == SkipSpace(toks, star + 1)
        starts == {k \in (star + 1)..run :
                     /\ k <= Len(toks)
                     /\ toks[k] # "\n"
                     /\ FirstOnLine(toks, k + 1, "\n") > 0}
        g == CHOOSE k \in starts : \A j \in starts : j <= k
    IN  IF /\ i + 2 <= Len(toks)
           /\ toks[i] = "/" /\ toks[i + 1] = "*" /\ toks[i + 2] = "*"
           /\ \E k \in (i + 3)..(star - 1) : toks[k] = "\n"
           /\ star <= Len(toks) /\ toks[star] = "*"
           /\ starts # {}
        THEN [ok |-> TRUE, group |-> SubSeq(toks, g, FirstOnLine(toks, g + 1, "\n") - 1)]
        ELSE [ok |-> FALSE, group |-> <<>>]

\* lines 162-163: the description of a middleware file, "" without a match
RECURSIVE Description(_, _)
Description(toks, i) ==
    IF i > Len(toks) THEN <<>>
    ELSE IF DescriptionAt(toks, i).ok THEN DescriptionAt(toks, i).group
    ELSE Description(toks, i + 1)

(***************************************************************************)
(* JSON.  A value is a str, a literal (a number, true, false, null), a     *)
(* list or a dict (its keys in insertion order); a JSON text is the        *)
(* sequence of its tokens (layout whitespace left out, a string one token).*)
(***************************************************************************)
JStr(s) == [t |-> "str", s |-> s]
JLit(s) == [t |-> "lit", s |-> s]
JArr(a) == [t |-> "arr", a |-> a]
JObj(k, v) == [t |-> "obj", k |-> k, v |-> v]

\* a punctuation token of a JSON text
P(c) == [k |-> c, v |-> <<>>]

\* the texts of a sequence joined by "," tokens
RECURSIVE JoinComma(_)
JoinComma(ts) ==
    IF ts = <<>> THEN <<>>
    ELSE IF Len(ts) = 1 THEN ts[1]
    ELSE ts[1] \o <<P(",")>> \o JoinComma(Tail(ts))

\* the encoder's string escapes: \" for a quote, \\ for a backslash, \n for a
\* newline
RECURSIVE Escape(_)
Escape(s) ==
    IF s = <<>> THEN <<>>
    ELSE (CASE Head(s) = "\"" -> <<"\\", "\"">>
            [] Head(s) = "\\" -> <<"\\", "\\">>
            [] Head(s) = "\n" -> <<"\\", "n">>
            [] OTHER -> <<Head(s)>>)
         \o Escape(Tail(s))

\* a decoder that leaves the escapes of a string body as they are written
Unescape_Raw(s) == s

\* the decoder's reading of a string body: a backslash and the character
\* after it stand for one character
RECURSIVE Unescape(_)
Unescape(s) ==
    IF s = <<>> THEN <<>>
    ELSE IF Head(s) = "\\" /\ Len(s) >= 2
         THEN <<IF s[2] = "n" THEN "\n" ELSE s[2]>> \o Unescape(SubSeq(s, 3, Len(s)))
    ELSE <<Head(s)>> \o Unescape(Tail(s))

\* json.dumps(value)
RECURSIVE Dumps(_)
Dumps(val) ==
    CASE val.t = "str" -> <<[k |-> "str", v |-> Escape(val.s)]>>
      [] val.t = "lit" -> <<[k |-> "lit", v |-> val.s]>>
      [] val.t = "arr" ->
            <<P("[")>> \o JoinComma([i \in 1..Len(val.a) |-> Dumps(val.a[i])]) \o <<P("]")>>
      [] val.t = "obj" ->
            <<P("{")>>
            \o JoinComma([i \in 1..Len(val.k) |->
                            <<[k |-> "str", v |-> Escape(val.k[i])], P(":")>> \o Dumps(val.v[i])])
            \o <<P("}")>>

\* d[key] = val on a dict: a key already present keeps its place
DictSet(d, key, val) ==
    IF \E i \in 1..Len(d.k) : d.k[i] = key
    THEN JObj(d.k, [i \in 1..Len(d.k) |-> IF d.k[i] = key THEN val ELSE d.v[i]])
    ELSE JObj(Append(d.k, key), Append(d.v, val))

\* d.get(key, default) on a dict
DictGet(d, key, default) ==
    IF \E i \in 1..Len(d.k) : d.k[i] = key
    THEN d.v[CHOOSE i \in 1..Len(d.k) : d.k[i] = key]
    ELSE default

ParseFail == [ok |-> FALSE, val |-> JLit(<<>>), next |-> 0]

\* the JSON decoder: the value that starts at token i and the position after it
RECURSIVE ParseValue(_, _)
RECURSIVE ParseItems(_, _, _)
RECURSIVE ParseMembers(_, _, _)
ParseValue(toks, i) ==
    IF i > Len(toks) THEN ParseFail
    ELSE CASE toks[i].k = "str" -> [ok |-> TRUE, val |-> JStr(Unescape(toks[i].v)), next |-> i + 1]
           [] toks[i].k = "lit" -> [ok |-> TRUE, val |-> JLit(toks[i].v), next |-> i + 1]
           [] toks[i].k = "[" ->
                IF i + 1 <= Len(toks) /\ toks[i + 1].k = "]"
                THEN [ok |-> TRUE, val |-> JArr(<<>>), next |-> i + 2]
                ELSE ParseItems(toks, i + 1, <<>>)
           [] toks[i].k = "{" ->
                IF i + 1 <= Len(toks) /\ toks[i + 1].k = "}"
                THEN [ok |-> TRUE, val |-> JObj(<<>>, <<>>), next |-> i + 2]
                ELSE ParseMembers(toks, i + 1, JObj(<<>>, <<>>))
           [] OTHER -> ParseFail

ParseItems(toks, i, acc) ==
    LET r == ParseValue(toks, i)
    IN  IF ~r.ok \/ r.next > Len(toks) THEN ParseFail
        ELSE IF toks[r.next].k = "," THEN ParseItems(toks, r.next + 1, Append(acc, r.val))
        ELSE IF toks[r.next].k = "]"
             THEN [ok |-> TRUE, val |-> JArr(Append(acc, r.val)), next |-> r.next + 1]
        ELSE ParseFail

ParseMembers(toks, i, d) ==
    IF ~(i + 1 <= Len(toks) /\ toks[i].k = "str" /\ toks[i + 1].k = ":") THEN ParseFail
    ELSE LET r == ParseValue(toks, i + 2)
         IN  IF ~r.ok \/ r.next > Len(toks) THEN ParseFail
             ELSE IF toks[r.next].k = ","
                  THEN ParseMembers(toks, r.next + 1, DictSet(d, Unescape(toks[i].v), r.val))
             ELSE IF toks[r.next].k = "}"
                  THEN [ok |-> TRUE, val |-> DictSet(d, Unescape(toks[i].v), r.val), next |-> r.next + 1]
             ELSE ParseFail

\* json.loads(text): ok = FALSE for a JSONDecodeError
Loads(toks) ==
    LET r == ParseValue(toks, 1)
    IN  IF r.ok /\ r.next = Len(toks) + 1 THEN [ok |-> TRUE, val |-> r.val]
        ELSE [ok |-> FALSE, val |-> JLit(<<>>)]

(***************************************************************************)
(* The source trees analyze() is run on.  A file is generated from the     *)
(* statements (lines) it holds; the extractor reads only its content.      *)
(***************************************************************************)
\* route registrations: obj.method('path'[, { preHandler: [mws] }][, handler])
RouteStmt(obj, method, opts, mws, handler) ==
    [kind |-> "route", obj |-> obj, method |-> method, path |-> <<"/", "areas">>,
     opts |-> opts, mws |-> mws, handler |-> handler]

RouteStmts ==
    { RouteStmt("fastify", "get", FALSE, <<>>, <<"AreaController", ".", "list">>),
      RouteStmt("fastify", "post", FALSE, <<>>, <<"h">>),
      RouteStmt("fastify", "get", TRUE, <<"auth", "admin">>, <<"h">>),
      RouteStmt("fastify", "put", TRUE, <<>>, <<"h">>),
      RouteStmt("router", "get", FALSE, <<>>, <<"AreaController", ".", "list">>),
      RouteStmt("fastify", "get", FALSE, <<>>, <<>>) }

\* export declarations: export [async] function name / export const name =
\* [async] / export class name
ExportStmt(form, async, name) ==
    [kind |-> "export", form |-> form, async |-> async, name |-> name]

ExportStmts ==
    { ExportStmt("function", TRUE, "login"),
      ExportStmt("function", FALSE, "login"),
      ExportStmt("const", TRUE, "logout"),
      ExportStmt("const", FALSE, "logout"),
      ExportStmt("class", FALSE, "Store") }

\* table definitions: create table [if not exists] name
TableStmt(create, ifne, name) ==
    [kind |-> "table", create |-> create, ifne |-> ifne, name |-> name]

TableStmts ==
    { TableStmt("CREATE", TRUE, "cameras"),
      TableStmt("CREATE", FALSE, "users"),
      TableStmt("create", FALSE, "cameras") }

\* the lines of a middleware file: a leading block comment, or code
DocStmts ==
    { [kind |-> "doc", text |-> <<"Auth", " ", "\"", "guard", "\"">>],
      [kind |-> "doc", text |-> <<>>],
      [kind |-> "code", text |-> <<"next", "(", ")", ";">>] }

\* a sequence of words as a comma-separated list
RECURSIVE CommaList(_)
CommaList(ws) ==
    IF ws = <<>> THEN <<>>
    ELSE IF Len(ws) = 1 THEN <<ws[1]>>
    ELSE <<ws[1], ",", " ">> \o CommaList(Tail(ws))

\* the text of one statement
Render(st) ==
    CASE st.kind = "route" ->
            <<st.obj, ".", st.method, "(", "'">> \o st.path \o <<"'">>
            \o (IF st.opts
                THEN <<",", " ", "{", " ", "preHandler", ":", " ", "[">>
                     \o CommaList(st.mws) \o <<"]", " ", "}">>
                ELSE <<>>)
            \o (IF st.handler # <<>> THEN <<",", " ">> \o st.handler ELSE <<>>)
            \o <<")", ";", "\n">>
      [] st.kind = "export" /\ st.form = "function" ->
            <<"export", " ">> \o (IF st.async THEN <<"async", " ">> ELSE <<>>)
            \o <<"function", " ", st.name, "(", ")", " ", "{", "}", "\n">>
      [] st.kind = "export" /\ st.form = "const" ->
            <<"export", " ", "const", " ", st.name, " ", "=", " ">>
            \o (IF st.async THEN <<"async", " ">> ELSE <<>>)
            \o <<"(", ")", " ", "=", ">", " ", "{", "}", "\n">>
      [] st.kind = "export" /\ st.form = "class" ->
            <<"export", " ", "class", " ", st.name, " ", "{", "}", "\n">>
      [] st.kind = "table" ->
            <<st.create, " ", (IF st.create = "create" THEN "table" ELSE "TABLE"), " ">>
            \o (IF st.ifne THEN <<"IF", " ", "NOT", " ", "EXISTS", " ">> ELSE <<>>)
            \o <<st.name, " ", "(", ")", ";", "\n">>
      [] st.kind = "doc" ->
            <<"/", "*", "*", "\n", " ", "*", " ">> \o st.text \o <<"\n", " ", "*", "/", "\n">>
      [] st.kind = "code" -> st.text \o <<"\n">>

\* a readable file made of the statements sts
File(stem, sts) ==
    [stem |-> stem, readable |-> TRUE, stmts |-> sts,
     content |-> Flatten([i \in 1..Len(sts) |-> Render(sts[i])])]

\* a file read_text() raises on
Unreadable(stem) == [stem |-> stem, readable |-> FALSE, stmts |-> <<>>, content |-> <<>>]

AbsentDir == [exists |-> FALSE, files |-> <<>>]

\* the sequences over S of length at most n
SeqsUpTo(S, n) == UNION {[1..k -> S] : k \in 0..n}

\* a directory of one file: of any of the names, unreadable or holding at most
\* MaxStmts statements
SingleFileDirs(names, S) ==
    { [exists |-> TRUE, files |-> <<f>>]
      : f \in UNION { {Unreadable(nm)} \cup {File(nm, sigma) : sigma \in SeqsUpTo(S, MaxStmts)}
                      : nm \in names } }

\* the files a directory of several files has under the name stem:
\* unreadable, empty or one statement long
SmallFiles(stem, S) ==
    {Unreadable(stem), File(stem, <<>>)} \cup {File(stem, <<st>>) : st \in S}

\* a directory of k files, named stems[1..k] in the order glob yields them
SeveralFileDirs(stems, S, k) ==
    { [exists |-> TRUE, files |-> f]
      : f \in {g \in [1..k -> UNION {SmallFiles(stems[j], S) : j \in 1..k}] :
                  \A j \in 1..k : g[j] \in SmallFiles(stems[j], S)} }

\* the directories of a category: absent, empty, of one file (named stems[1]
\* or one of alt), or of up to MaxFiles files
Dirs(stems, alt, S) ==
    {AbsentDir, [exists |-> TRUE, files |-> <<>>]}
    \cup SingleFileDirs({stems[1]} \cup alt, S)
    \cup UNION {SeveralFileDirs(stems, S, k) : k \in 2..MaxFiles}

\* file names (stems, as their parts) of each category
RouteStems ==
    << <<"area", "Routes">>, <<"camera", "Routes">>, <<"user", "Routes">>,
       <<"feedback", "Routes">> >>
\* route files named otherwise
OtherRouteStems == { <<"auth">>, <<"Routes", "V2", "Routes">> }
ControllerStems ==
    << <<"authController">>, <<"areaController">>, <<"cameraController">>,
       <<"userController">> >>
MiddlewareStems == << <<"authMiddleware">>, <<"rateLimiter">>, <<"cors">>, <<"csrf">> >>
ServiceStems == << <<"streamService">>, <<"mediaService">>, <<"cache">>, <<"mailer">> >>
MigrationStems == << <<"001_init">>, <<"002_cameras">>, <<"003_feedback">>, <<"004_audit">> >>

\* database/setup.js and package.json: absent, unreadable, or a text
AbsentFile == [exists |-> FALSE, readable |-> FALSE, content |-> <<>>]
UnreadableFile == [exists |-> TRUE, readable |-> FALSE, content |-> <<>>]
TextFile(content) == [exists |-> TRUE, readable |-> TRUE, content |-> content]

SetupFiles ==
    {AbsentFile, UnreadableFile}
    \cup {TextFile(Flatten([i \in 1..Len(sigma) |-> Render(sigma[i])]))
            : sigma \in SeqsUpTo(TableStmts, MaxStmts)}

\* the "dependencies" blocks of the manifests
DependencyBlocks ==
    { JObj(<<>>, <<>>),
      JObj(<< <<"fastify">> >>, << JStr(<<"^4.24.0">>) >>),
      JObj(<< <<"fastify">>, <<"bcrypt">> >>, << JStr(<<"^4.24.0">>), JStr(<<"^5.1.1">>) >>),
      JArr(<< JStr(<<"fastify">>) >>),
      JLit(<<"null">>) }

ManifestTexts ==
    {Dumps(JObj(<< <<"name">>, <<"dependencies">> >>, << JStr(<<"backend">>), d >>))
        : d \in DependencyBlocks}
    \cup { Dumps(JObj(<< <<"name">> >>, << JStr(<<"backend">>) >>)),
           Dumps(JArr(<<>>)),
           <<P("{"), [k |-> "str", v |-> <<"name">>], P(":")>>,
           <<>> }

PackageFiles == {AbsentFile, UnreadableFile} \cup {TextFile(t) : t \in ManifestTexts}

\* a tree with every category present
TypicalTree ==
    [routes |-> [exists |-> TRUE, files |-> <<
        File(RouteStems[1],
             << RouteStmt("fastify", "get", FALSE, <<>>, <<"AreaController", ".", "list">>),
                RouteStmt("fastify", "post", FALSE, <<>>, <<"h">>) >>) >>],
     controllers |-> [exists |-> TRUE, files |-> <<
        File(ControllerStems[1],
             << ExportStmt("function", TRUE, "login") >>) >>],
     middleware |-> [exists |-> TRUE, files |-> <<
        File(MiddlewareStems[1],
             << [kind |-> "doc", text |-> <<"Auth", " ", "\"", "guard", "\"">>] >>) >>],
     services |-> [exists |-> TRUE, files |-> <<
        File(ServiceStems[1], << ExportStmt("class", FALSE, "Store") >>) >>],
     migrations |-> [exists |-> TRUE, files |-> <<
        File(MigrationStems[1], << TableStmt("CREATE", TRUE, "cameras") >>) >>],
     setup |-> TextFile(Render(TableStmt("create", FALSE, "cameras"))),
     package |-> TextFile(Dumps(JObj(<< <<"name">>, <<"dependencies">> >>,
                                     << JStr(<<"backend">>),
                                        JObj(<< <<"fastify">> >>, << JStr(<<"^4.24.0">>) >>) >>)))]

\* a tree with nothing in it
EmptyTree ==
    [routes |-> AbsentDir, controllers |-> AbsentDir, middleware |-> AbsentDir,
     services |-> AbsentDir, migrations |-> AbsentDir,
     setup |-> AbsentFile, package |-> AbsentFile]

\* the trees of the extraction runs: one category varied over all its
\* directories, the others as in the typical tree; and the empty tree
Trees ==
    {EmptyTree}
    \cup {[TypicalTree EXCEPT !.routes = d] : d \in Dirs(RouteStems, OtherRouteStems, RouteStmts)}
    \cup {[TypicalTree EXCEPT !.controllers = d] : d \in Dirs(ControllerStems, {}, ExportStmts)}
    \cup {[TypicalTree EXCEPT !.middleware = d] : d \in Dirs(MiddlewareStems, {}, DocStmts)}
    \cup {[TypicalTree EXCEPT !.services = d] : d \in Dirs(ServiceStems, {}, ExportStmts)}
    \cup {[TypicalTree EXCEPT !.migrations = d] : d \in Dirs(MigrationStems, {}, TableStmts)}
    \cup {[TypicalTree EXCEPT !.setup = f] : f \in SetupFiles}
    \cup {[TypicalTree EXCEPT !.package = f] : f \in PackageFiles}

(***************************************************************************)
(* analyze_backend.py                                                      *)
(***************************************************************************)
Msg(m, n) == [msg |-> m, n |-> n]

\* an uncaught exception ends the program with a traceback and status 1
AnalyzerRaise ==
    /\ pc' = "raised"
    /\ exit_code' = [exit_code EXCEPT !.analyzer = "1"]
    /\ console' = Append(console, Msg("Traceback", 0))

\* read_text() succeeds on every file of the directory
AllReadable(dir) == \A j \in 1..Len(dir.files) : dir.files[j].readable

\* str(file.relative_to(self.backend_path))
RelPath(dirname, stem) == <<dirname, "/">> \o stem \o <<".", "js">>

\* lines 80-111: the routes of every file of the directory, in glob order
RoutesOfDir(dir) == Flatten([j \in 1..Len(dir.files) |-> RoutesOfFile(dir.files[j])])

\* lines 136-144 and 192-200: list(set(functions)), in any of the orders the
\* set may come out in
FunctionLists(patterns, content) == ListOfSet(Range(ExportedFunctions(patterns, content)))

\* the values a per-file loop over dir can build when entry j is Entry(j) with
\* its functions any member of Lists(j)
ModulesOfDir(dir, dirname, patterns) ==
    LET n == Len(dir.files)
        lists == [j \in 1..n |-> FunctionLists(patterns, dir.files[j].content)]
    IN  { [j \in 1..n |->
             [name |-> dir.files[j].stem,
              file |-> RelPath(dirname, dir.files[j].stem),
              functions |-> o[j]]]
          : o \in {c \in [1..n -> UNION {lists[j] : j \in 1..n}] :
                      \A j \in 1..n : c[j] \in lists[j]} }

\* lines 158-169: one Middleware per file
MiddlewareOfDir(dir) ==
    [j \in 1..Len(dir.files) |->
        [name |-> dir.files[j].stem,
         file |-> RelPath("middleware", dir.files[j].stem),
         description |-> Description(dir.files[j].content, 1)]]

\* lines 214-219: tables.extend(table_matches), file after file
TablesOfDir(dir) ==
    Flatten([j \in 1..Len(dir.files) |-> FindAll(table_pattern, dir.files[j].content, 1)])

\* the tables as found, without set()
TableLists_AsFound(found) == {found}

\* line 228: list(set(tables)), in any of the orders the set may come out in
TableLists(found) == ListOfSet(Range(found))

\* main() calls analyze(), which prints its banner
analyze ==
    /\ pc = "main" /\ gpc = "main"
    /\ pc' = "analyze_routes"
    /\ console' = Append(console, Msg("Analyzing backend structure", 0))
    /\ UNCHANGED <<fs, routes, controllers, middleware, services, tables, deps, result,
                   disk, exit_code>>
    /\ UNCHANGED <<generatorVars, serverVars>>

analyze_routes ==
    /\ pc = "analyze_routes"
    /\ IF ~fs.routes.exists
       THEN /\ routes' = <<>>
            /\ pc' = "analyze_controllers"
            /\ UNCHANGED <<console, exit_code>>
       ELSE IF ~AllReadable(fs.routes)
       THEN /\ AnalyzerRaise
            /\ UNCHANGED routes
       ELSE /\ routes' = RoutesOfDir(fs.routes)
            /\ pc' = "analyze_controllers"
            /\ console' = Append(console, Msg("Found routes", Len(routes')))
            /\ UNCHANGED exit_code
    /\ UNCHANGED <<fs, controllers, middleware, services, tables, deps, result, disk>>
    /\ UNCHANGED <<generatorVars, serverVars>>

analyze_controllers ==
    /\ pc = "analyze_controllers"
    /\ IF ~fs.controllers.exists
       THEN /\ controllers' = <<>>
            /\ pc' = "analyze_middleware"
            /\ UNCHANGED <<console, exit_code>>
       ELSE IF ~AllReadable(fs.controllers)
       THEN /\ AnalyzerRaise
            /\ UNCHANGED controllers
       ELSE /\ controllers' \in ModulesOfDir(fs.controllers, "controllers", controller_patterns)
            /\ pc' = "analyze_middleware"
            /\ console' = Append(console, Msg("Found controllers", Len(controllers')))
            /\ UNCHANGED exit_code
    /\ UNCHANGED <<fs, routes, middleware, services, tables, deps, result, disk>>
    /\ UNCHANGED <<generatorVars, serverVars>>

analyze_middleware ==
    /\ pc = "analyze_middleware"
    /\ IF ~fs.middleware.exists
       THEN /\ middleware' = <<>>
            /\ pc' = "analyze_services"
            /\ UNCHANGED <<console, exit_code>>
       ELSE IF ~AllReadable(fs.middleware)
       THEN /\ AnalyzerRaise
            /\ UNCHANGED middleware
       ELSE /\ middleware' = MiddlewareOfDir(fs.middleware)
            /\ pc' = "analyze_services"
            /\ console' = Append(console, Msg("Found middleware", Len(middleware')))
            /\ UNCHANGED exit_code
    /\ UNCHANGED <<fs, routes, controllers, services, tables, deps, result, disk>>
    /\ UNCHANGED <<generatorVars, serverVars>>

analyze_services ==
    /\ pc = "analyze_services"
    /\ IF ~fs.services.exists
       THEN /\ services' = <<>>
            /\ pc' = "analyze_database_schema"
            /\ UNCHANGED <<console, exit_code>>
       ELSE IF ~AllReadable(fs.services)
       THEN /\ AnalyzerRaise
            /\ UNCHANGED services
       ELSE /\ services' \in ModulesOfDir(fs.services, "services", service_patterns)
            /\ pc' = "analyze_database_schema"
            /\ console' = Append(console, Msg("Found services", Len(services')))
            /\ UNCHANGED exit_code
    /\ UNCHANGED <<fs, routes, controllers, middleware, tables, deps, result, disk>>
    /\ UNCHANGED <<generatorVars, serverVars>>

\* lines 221-226: the tables of database/setup.js, when it exists
TablesOfSetup(setup) ==
    IF setup.exists THEN FindAll(table_pattern, setup.content, 1) ELSE <<>>

analyze_database_schema ==
    /\ pc = "analyze_database_schema"
    /\ IF ~fs.migrations.exists
       THEN /\ tables' = <<>>
            /\ pc' = "analyze_dependencies"
            /\ UNCHANGED <<console, exit_code>>
       ELSE IF ~AllReadable(fs.migrations) \/ (fs.setup.exists /\ ~fs.setup.readable)
       THEN /\ AnalyzerRaise
            /\ UNCHANGED tables
       ELSE /\ tables' \in TableLists(TablesOfDir(fs.migrations) \o TablesOfSetup(fs.setup))
            /\ pc' = "analyze_dependencies"
            /\ console' = Append(console, Msg("Found database tables", Len(tables')))
            /\ UNCHANGED exit_code
    /\ UNCHANGED <<fs, routes, controllers, middleware, services, deps, result, disk>>
    /\ UNCHANGED <<generatorVars, serverVars>>

\* lines 232-243: what analyze_dependencies does on the manifest: it returns
\* {} without a print when the file is absent; read_text, json.loads, data.get
\* and len(deps) each raise on a value of the wrong shape (OSError or
\* UnicodeDecodeError, JSONDecodeError, AttributeError, TypeError); else it
\* prints and returns the "dependencies" block
DependenciesRaise_NoExistsCheck(file) ==
    \/ ~file.exists
    \/ ~file.readable
    \/ ~Loads(file.content).ok
    \/ Loads(file.content).val.t # "obj"
    \/ DictGet(Loads(file.content).val, <<"dependencies">>, JObj(<<>>, <<>>)).t = "lit"

DependenciesRaise(file) ==
    /\ file.exists
    /\ \/ ~file.readable
       \/ ~Loads(file.content).ok
       \/ Loads(file.content).val.t # "obj"
       \/ DictGet(Loads(file.content).val, <<"dependencies">>, JObj(<<>>, <<>>)).t = "lit"

analyze_dependencies ==
    /\ pc = "analyze_dependencies"
    /\ IF DependenciesRaise(fs.package)
       THEN /\ AnalyzerRaise
            /\ UNCHANGED deps
       ELSE IF ~fs.package.exists
       THEN /\ deps' = JObj(<<>>, <<>>)
            /\ pc' = "return"
            /\ UNCHANGED <<console, exit_code>>
       ELSE /\ deps' = DictGet(Loads(fs.package.content).val, <<"dependencies">>, JObj(<<>>, <<>>))
            /\ pc' = "return"
            /\ console' = Append(console, Msg("Found dependencies", 0))
            /\ UNCHANGED exit_code
    /\ UNCHANGED <<fs, routes, controllers, middleware, services, tables, result, disk>>
    /\ UNCHANGED <<generatorVars, serverVars>>

\* lines 63-70: analyze() returns the AnalysisResult
analyze_return ==
    /\ pc = "return"
    /\ result' = [routes |-> routes, controllers |-> controllers,
                  middleware |-> middleware, services |-> services,
                  database_tables |-> tables, dependencies |-> deps]
    /\ pc' = "print_summary"
    /\ UNCHANGED <<fs, routes, controllers, middleware, services, tables, deps, disk,
                   exit_code, console>>
    /\ UNCHANGED <<generatorVars, serverVars>>

\* line 296
key_deps == { <<"fastify">>, <<"better-sqlite3">>, <<"bcrypt">>, <<"jsonwebtoken">>, <<"axios">> }

\* lines 297-299: result.dependencies[dep] raises TypeError when dependencies
\* is a list or a str that holds a key dependency
SummaryRaises(d) ==
    \/ d.t = "arr" /\ \E i \in 1..Len(d.a) : d.a[i].t = "str" /\ d.a[i].s \in key_deps
    \/ d.t = "str" /\ \E i \in 1..Len(d.s) : <<d.s[i]>> \in key_deps

print_summary ==
    /\ pc = "print_summary"
    /\ IF SummaryRaises(result.dependencies)
       THEN AnalyzerRaise
       ELSE /\ pc' = "save_analysis"
            /\ console' = Append(console, Msg("BACKEND ANALYSIS SUMMARY", Len(result.routes)))
            /\ UNCHANGED exit_code
    /\ UNCHANGED <<fs, routes, controllers, middleware, services, tables, deps, result, disk>>
    /\ UNCHANGED <<generatorVars, serverVars>>

\* asdict(r) for a Route
RouteDict(r) ==
    JObj(<< <<"method">>, <<"path">>, <<"handler">>, <<"middleware">>, <<"controller">> >>,
         << JStr(<<r.method>>), JStr(r.path), JStr(r.handler),
            JArr([j \in 1..Len(r.middleware) |-> JStr(r.middleware[j])]),
            JStr(r.controller) >>)

\* asdict(c) for a Controller or a Service
ModuleDict(c) ==
    JObj(<< <<"name">>, <<"file">>, <<"functions">> >>,
         << JStr(c.name), JStr(c.file),
            JArr([j \in 1..Len(c.functions) |-> JStr(<<c.functions[j]>>)]) >>)

\* asdict(m) for a Middleware
MiddlewareDict(m) ==
    JObj(<< <<"name">>, <<"file">>, <<"description">> >>,
         << JStr(m.name), JStr(m.file), JStr(m.description) >>)

\* lines 250-257: the dict save_analysis serializes
AnalysisData(r) ==
    JObj(<< <<"routes">>, <<"controllers">>, <<"middleware">>, <<"services">>,
            <<"database_tables">>, <<"dependencies">> >>,
         << JArr([i \in 1..Len(r.routes) |-> RouteDict(r.routes[i])]),
            JArr([i \in 1..Len(r.controllers) |-> ModuleDict(r.controllers[i])]),
            JArr([i \in 1..Len(r.middleware) |-> MiddlewareDict(r.middleware[i])]),
            JArr([i \in 1..Len(r.services) |-> ModuleDict(r.services[i])]),
            JArr([i \in 1..Len(r.database_tables) |-> JStr(<<r.database_tables[i]>>)]),
            r.dependencies >>)

save_analysis ==
    /\ pc = "save_analysis"
    /\ disk' = [exists |-> TRUE, text |-> Dumps(AnalysisData(result))]
    /\ console' = Append(console, Msg("Analysis saved", 0))
    /\ pc' = "done"
    /\ exit_code' = [exit_code EXCEPT !.analyzer = "0"]
    /\ UNCHANGED <<fs, routes, controllers, middleware, services, tables, deps, result>>
    /\ UNCHANGED <<generatorVars, serverVars>>

(***************************************************************************)
(* generate_golang.py.  A path under backend-go is the sequence of its     *)
(* components; a generated text is the sequence of its parts, the literal  *)
(* parts of a template named by what they hold.                            *)
(***************************************************************************)
\* sys.argv[1], or the default of main()
ModuleNames == { <<"github.com/yourusername/cctv-backend">>, <<"example.com/app">> }

\* lines 48-60
dirs ==
    << <<"cmd", "server">>, <<"internal", "config">>, <<"internal", "database">>,
       <<"internal", "models">>, <<"internal", "middleware">>, <<"internal", "handlers">>,
       <<"internal", "routes">>, <<"internal", "services">>, <<"internal", "utils">>,
       <<"pkg", "logger">>, <<"migrations">> >>

\* mkdir(parents=True, exist_ok=True): the directory and those above it,
\* backend-go itself (<<>>) included
WithParents(d) == {SubSeq(d, 1, i) : i \in 0..Len(d)}

\* lines 69-81
GoMod(m) == <<"module ">> \o m \o <<"go 1.21", "require fiber jwt go-sqlite3 godotenv crypto uuid">>

\* lines 88-182
MainGo(m) ==
    <<"package main", "import ">> \o m \o <<"/internal/config", "import ">> \o m
    \o <<"/internal/database", "import ">> \o m \o <<"/internal/routes", "import ">> \o m
    \o <<"/pkg/logger", "func main">>

\* lines 189-290: the options, each with its environment variable and default
ConfigGo ==
    << "package config",
       "Server.Host HOST 0.0.0.0", "Server.Port PORT 3000", "Server.Env NODE_ENV development",
       "Database.Path DATABASE_PATH ./data/cctv.db",
       "JWT.Secret JWT_SECRET change-this-secret", "JWT.Expiration JWT_EXPIRATION 1h",
       "Security.AllowedOrigins ALLOWED_ORIGINS http://localhost:5173",
       "Security.APIKeySecret API_KEY_SECRET", "Security.CSRFSecret CSRF_SECRET",
       "Security.RateLimitPublic RATE_LIMIT_PUBLIC 100",
       "Security.RateLimitAuth RATE_LIMIT_AUTH 30",
       "Security.MaxLoginAttempts MAX_LOGIN_ATTEMPTS 5",
       "Security.LockoutDurationMins LOCKOUT_DURATION_MINUTES 30",
       "MediaMTX.APIURL MEDIAMTX_API_URL http://localhost:9997",
       "MediaMTX.HLSURLInternal MEDIAMTX_HLS_URL_INTERNAL http://localhost:8888",
       "MediaMTX.HLSURLPublic PUBLIC_HLS_PATH /hls" >>

\* a bootstrap that creates the tables the model names
DatabaseGo_FromModel ==
    LET named == IF analysis.t = "obj"
                 THEN DictGet(analysis, <<"database_tables">>, JArr(<<>>)).a
                 ELSE <<>>
    IN  <<"package database", "func Connect", "func RunMigrations">>
        \o [i \in 1..Len(named) |-> "CREATE TABLE IF NOT EXISTS " \o named[i].s[1]]

\* lines 297-391: Connect, and the statements of RunMigrations
DatabaseGo ==
    << "package database", "func Connect", "func RunMigrations",
       "CREATE TABLE IF NOT EXISTS users", "CREATE TABLE IF NOT EXISTS areas",
       "CREATE TABLE IF NOT EXISTS cameras", "CREATE TABLE IF NOT EXISTS audit_logs",
       "CREATE TABLE IF NOT EXISTS feedbacks" >>

\* lines 400-442: models_map.get(table, "")
models_map(table) ==
    CASE table = "users" -> <<"package models", "type User", "type LoginRequest", "type LoginResponse">>
      [] table = "cameras" -> <<"package models", "type Camera">>
      [] OTHER -> <<>>

\* lines 455-520
AuthMiddlewareGo == <<"package middleware", "type JWTClaims", "func AuthMiddleware">>

\* lines 528-655
AuthHandlerGo(m) ==
    <<"package handlers", "import ">> \o m \o <<"/internal/config", "import ">> \o m
    \o <<"/internal/models", "func Login", "func Logout", "func Verify">>

\* lines 662-695
RoutesGo(m) ==
    <<"package routes", "import ">> \o m \o <<"/internal/config", "import ">> \o m
    \o <<"/internal/handlers", "import ">> \o m
    \o <<"/internal/middleware", "func Setup", "POST /api/auth/login", "POST /api/auth/logout",
         "GET /api/auth/verify authMiddleware", "TODO: Add more routes here">>

\* lines 702-726
LoggerGo == <<"package logger", "func Init", "func Info", "func Error">>

\* lines 733-768
Dockerfile == <<"FROM golang:1.21-alpine AS builder", "FROM alpine:latest">>

\* lines 775-816
Makefile == <<".PHONY", "build", "run", "test", "clean", "docker-build", "docker-run", "deps", "fmt", "lint">>

\* an uncaught exception ends the program with a traceback and status 1
GeneratorRaise ==
    /\ gpc' = "raised"
    /\ exit_code' = [exit_code EXCEPT !.generator = "1"]
    /\ console' = Append(console, Msg("Traceback", 0))

\* files with the text written at path
Written(files, path, text) ==
    [q \in DOMAIN files \cup {path} |-> IF q = path THEN text ELSE files[q]]

\* (self.output_dir / path).write_text(text), then print and go on to next;
\* FileNotFoundError when the directory of path does not exist
WriteText(path, text, message, next) ==
    IF SubSeq(path, 1, Len(path) - 1) \in out_dirs
    THEN /\ out_files' = Written(out_files, path, text)
         /\ console' = Append(console, Msg(message, 0))
         /\ gpc' = next
         /\ UNCHANGED exit_code
    ELSE /\ GeneratorRaise
         /\ UNCHANGED out_files

\* lines 821-834: main() up to the constructor call; the programs are run one
\* after the other, the generator with or without an extraction before it
generator_main ==
    /\ gpc = "main"
    /\ pc \in {"main", "done", "raised"}
    /\ \E m \in ModuleNames : module_name' = m
    /\ IF ~disk.exists
       THEN /\ console' = console \o << Msg("Analysis file not found", 0),
                                        Msg("Run analyze_backend.py first!", 0) >>
            /\ gpc' = "returned"
            /\ exit_code' = [exit_code EXCEPT !.generator = "0"]
       ELSE /\ gpc' = "__init__"
            /\ UNCHANGED <<console, exit_code>>
    /\ UNCHANGED <<fs, disk, out_writable, analysis, out_dirs, out_files>>
    /\ UNCHANGED <<analyzerVars, serverVars>>

\* lines 17-24: json.load raises on a text that is not JSON
generator_init ==
    /\ gpc = "__init__"
    /\ IF Loads(disk.text).ok
       THEN /\ analysis' = Loads(disk.text).val
            /\ gpc' = "generate_all"
            /\ UNCHANGED <<console, exit_code>>
       ELSE /\ GeneratorRaise
            /\ UNCHANGED analysis
    /\ UNCHANGED <<fs, disk, out_writable, module_name, out_dirs, out_files>>
    /\ UNCHANGED <<analyzerVars, serverVars>>

generate_all ==
    /\ gpc = "generate_all"
    /\ console' = Append(console, Msg("Generating Golang project", 0))
    /\ gpc' = "create_directory_structure"
    /\ UNCHANGED <<fs, disk, out_writable, module_name, analysis, out_dirs, out_files, exit_code>>
    /\ UNCHANGED <<analyzerVars, serverVars>>

\* lines 62-63: mkdir raises PermissionError where nothing can be created
create_directory_structure ==
    /\ gpc = "create_directory_structure"
    /\ IF out_writable
       THEN /\ out_dirs' = out_dirs \cup UNION {WithParents(dirs[i]) : i \in 1..Len(dirs)}
            /\ console' = Append(console, Msg("Created directory structure", 0))
            /\ gpc' = "generate_go_mod"
            /\ UNCHANGED exit_code
       ELSE /\ GeneratorRaise
            /\ UNCHANGED out_dirs
    /\ UNCHANGED <<fs, disk, out_writable, module_name, analysis, out_files>>
    /\ UNCHANGED <<analyzerVars, serverVars>>

generate_go_mod ==
    /\ gpc = "generate_go_mod"
    /\ WriteText(<<"go.mod">>, GoMod(module_name), "Generated go.mod", "generate_main")
    /\ UNCHANGED <<fs, disk, out_writable, module_name, analysis, out_dirs>>
    /\ UNCHANGED <<analyzerVars, serverVars>>

generate_main ==
    /\ gpc = "generate_main"
    /\ WriteText(<<"cmd", "server", "main.go">>, MainGo(module_name),
                 "Generated main.go", "generate_config")
    /\ UNCHANGED <<fs, disk, out_writable, module_name, analysis, out_dirs>>
    /\ UNCHANGED <<analyzerVars, serverVars>>

generate_config ==
    /\ gpc = "generate_config"
    /\ WriteText(<<"internal", "config", "config.go">>, ConfigGo,
                 "Generated config.go", "generate_database")
    /\ UNCHANGED <<fs, disk, out_writable, module_name, analysis, out_dirs>>
    /\ UNCHANGED <<analyzerVars, serverVars>>

generate_database ==
    /\ gpc = "generate_database"
    /\ WriteText(<<"internal", "database", "database.go">>, DatabaseGo,
                 "Generated database.go", "generate_models")
    /\ UNCHANGED <<fs, disk, out_writable, module_name, analysis, out_dirs>>
    /\ UNCHANGED <<analyzerVars, serverVars>>

\* a lookup that raises KeyError when the model has no "database_tables"
ModelsRaise_KeyError ==
    \/ analysis.t # "obj"
    \/ \A i \in 1..Len(analysis.k) : analysis.k[i] # <<"database_tables">>

\* line 398: self.analysis.get("database_tables", []) raises AttributeError
\* unless the artifact holds a dict
ModelsRaise == analysis.t # "obj"

\* lines 396-450: the two files are written one after the other
generate_models ==
    /\ gpc = "generate_models"
    /\ IF ModelsRaise \/ <<"internal", "models">> \notin out_dirs
       THEN /\ GeneratorRaise
            /\ UNCHANGED out_files
       ELSE /\ out_files' = Written(Written(out_files, <<"internal", "models", "user.go">>,
                                            models_map("users")),
                                    <<"internal", "models", "camera.go">>, models_map("cameras"))
            /\ console' = Append(console, Msg("Generated model files", 2))
            /\ gpc' = "generate_middleware"
            /\ UNCHANGED exit_code
    /\ UNCHANGED <<fs, disk, out_writable, module_name, analysis, out_dirs>>
    /\ UNCHANGED <<analyzerVars, serverVars>>

generate_middleware ==
    /\ gpc = "generate_middleware"
    /\ WriteText(<<"internal", "middleware", "auth.go">>, AuthMiddlewareGo,
                 "Generated middleware", "generate_handlers")
    /\ UNCHANGED <<fs, disk, out_writable, module_name, analysis, out_dirs>>
    /\ UNCHANGED <<analyzerVars, serverVars>>

generate_handlers ==
    /\ gpc = "generate_handlers"
    /\ WriteText(<<"internal", "handlers", "auth.go">>, AuthHandlerGo(module_name),
                 "Generated handlers", "generate_routes")
    /\ UNCHANGED <<fs, disk, out_writable, module_name, analysis, out_dirs>>
    /\ UNCHANGED <<analyzerVars, serverVars>>

generate_routes ==
    /\ gpc = "generate_routes"
    /\ WriteText(<<"internal", "routes", "routes.go">>, RoutesGo(module_name),
                 "Generated routes.go", "generate_services")
    /\ UNCHANGED <<fs, disk, out_writable, module_name, analysis, out_dirs>>
    /\ UNCHANGED <<analyzerVars, serverVars>>

generate_services ==
    /\ gpc = "generate_services"
    /\ WriteText(<<"pkg", "logger", "logger.go">>, LoggerGo,
                 "Generated services", "generate_dockerfile")
    /\ UNCHANGED <<fs, disk, out_writable, module_name, analysis, out_dirs>>
    /\ UNCHANGED <<analyzerVars, serverVars>>

generate_dockerfile ==
    /\ gpc = "generate_dockerfile"
    /\ WriteText(<<"Dockerfile">>, Dockerfile, "Generated Dockerfile", "generate_makefile")
    /\ UNCHANGED <<fs, disk, out_writable, module_name, analysis, out_dirs>>
    /\ UNCHANGED <<analyzerVars, serverVars>>

generate_makefile ==
    /\ gpc = "generate_makefile"
    /\ WriteText(<<"Makefile">>, Makefile, "Generated Makefile", "generated")
    /\ UNCHANGED <<fs, disk, out_writable, module_name, analysis, out_dirs>>
    /\ UNCHANGED <<analyzerVars, serverVars>>

\* lines 43-44 and 838-849: the closing prints of generate_all and main
generator_done ==
    /\ gpc = "generated"
    /\ console' = console \o << Msg("Golang project generated successfully!", 0),
                                 Msg("NEXT STEPS", 0) >>
    /\ gpc' = "done"
    /\ exit_code' = [exit_code EXCEPT !.generator = "0"]
    /\ UNCHANGED <<fs, disk, out_writable, module_name, analysis, out_dirs, out_files>>
    /\ UNCHANGED <<analyzerVars, serverVars>>

GeneratorNext ==
    \/ generator_main
    \/ generator_init
    \/ generate_all
    \/ create_directory_structure
    \/ generate_go_mod
    \/ generate_main
    \/ generate_config
    \/ generate_database
    \/ generate_models
    \/ generate_middleware
    \/ generate_handlers
    \/ generate_routes
    \/ generate_services
    \/ generate_dockerfile
    \/ generate_makefile
    \/ generator_done

AnalyzerNext ==
    \/ analyze
    \/ analyze_routes
    \/ analyze_controllers
    \/ analyze_middleware
    \/ analyze_services
    \/ analyze_database_schema
    \/ analyze_dependencies
    \/ analyze_return
    \/ print_summary
    \/ save_analysis

(***************************************************************************)
(* The server that the emitted files make up: routes.go wires the handlers *)
(* of handlers/auth.go and the middleware of middleware/auth.go.  A header *)
(* or cookie value is the sequence of its tokens (a word, or " "); a token *)
(* string is named by what jwt decodes it to.                              *)
(***************************************************************************)
\* generate_handlers, line 594: time.Hour * 24
TokenHours == 24

\* generate_config, lines 249 and 255: Server.Env and JWT.Secret as read from
\* the environment
Configs ==
    { [secret |-> "change-this-secret", env |-> e] : e \in {"production", "development", "Production"} }

\* bcrypt.GenerateFromPassword
Bcrypt(password) == <<"bcrypt", password>>

\* line 582: bcrypt.CompareHashAndPassword(hash, password) returns nil
CompareHashAndPassword(hash, password) == hash = Bcrypt(password)

\* the rows of the users table: one with the hash of "pw1", one whose hash is
\* no bcrypt hash
UserRows ==
    { [id |-> "1", username |-> "admin", password_hash |-> Bcrypt("pw1"), role |-> "admin"],
      [id |-> "2", username |-> "guest", password_hash |-> <<>>, role |-> "viewer"] }

\* the database: the users table filled or empty, or every query failing
Databases ==
    { [up |-> TRUE, users |-> UserRows],
      [up |-> TRUE, users |-> {}],
      [up |-> FALSE, users |-> UserRows] }

\* lines 562-565: QueryRow(... WHERE username = ?).Scan(...)
QueryRow(d, username) ==
    IF ~d.up THEN [err |-> "error", row |-> <<>>]
    ELSE IF \E u \in d.users : u.username = username
    THEN [err |-> "nil", row |-> CHOOSE u \in d.users : u.username = username]
    ELSE [err |-> "ErrNoRows", row |-> <<>>]

\* the identity claims of a token
Claims(id, username, role) == [user_id |-> id, username |-> username, role |-> role]

\* a token: the signing method, the key it was signed with, its expiry (the
\* hour it expires at, or no hour) and its claims
Token(alg, key, exp, claims) ==
    [wellformed |-> TRUE, alg |-> alg, key |-> key, exp |-> exp, claims |-> claims]

NotAToken == [wellformed |-> FALSE]

\* what the token strings of the requests decode to
Decode(tokenString) ==
    CASE tokenString = "jwt.admin" ->
             Token("HS256", "change-this-secret", {124}, Claims("1", "admin", "admin"))
      [] tokenString = "jwt.viewer" ->
             Token("HS512", "change-this-secret", {}, Claims("2", "guest", "viewer"))
      [] tokenString = "jwt.expired" ->
             Token("HS256", "change-this-secret", {90}, Claims("1", "admin", "admin"))
      [] tokenString = "jwt.forged" ->
             Token("HS256", "attacker-secret", {124}, Claims("1", "admin", "admin"))
      [] tokenString = "jwt.none" ->
             Token("none", "", {124}, Claims("1", "admin", "admin"))
      [] tokenString = "jwt.rs256" ->
             Token("RS256", "change-this-secret", {124}, Claims("1", "admin", "admin"))
      [] OTHER -> NotAToken

TokenStrings ==
    {"jwt.admin", "jwt.viewer", "jwt.expired", "jwt.forged", "jwt.none", "jwt.rs256", "garbage"}

\* a parse that reads the claims without verifying the token
ParseWithClaims_Unverified(value, secret, t) ==
    LET tok == IF Len(value) = 1 THEN Decode(value[1]) ELSE NotAToken
    IN  IF tok.wellformed
        THEN [valid |-> TRUE, claims |-> tok.claims]
        ELSE [valid |-> FALSE, claims |-> <<>>]

\* lines 499-507: jwt.ParseWithClaims with a key function that returns
\* []byte(secret) gives err == nil and token.Valid for a well-formed token of
\* an HMAC method, signed with the secret, that has not expired
ParseWithClaims(value, secret, t) ==
    LET tok == IF Len(value) = 1 THEN Decode(value[1]) ELSE NotAToken
    IN  IF /\ tok.wellformed
           /\ tok.alg \in {"HS256", "HS384", "HS512"}
           /\ tok.key = secret
           /\ \A e \in tok.exp : e > t
        THEN [valid |-> TRUE, claims |-> tok.claims]
        ELSE [valid |-> FALSE, claims |-> <<>>]

\* line 488: strings.Split(authHeader, " ")
RECURSIVE SplitSpace(_)
SplitSpace(toks) ==
    LET c == FirstOnLine(toks, 1, " ")
    IN  IF c = 0 THEN <<toks>>
        ELSE <<SubSeq(toks, 1, c - 1)>> \o SplitSpace(SubSeq(toks, c + 1, Len(toks)))

\* the routes of routes.go, lines 683-688: the chain of each
Chain(route) ==
    CASE route = <<"POST", "/api/auth/login">> -> "Login"
      [] route = <<"POST", "/api/auth/logout">> -> "Logout"
      [] route = <<"GET", "/api/auth/verify">> -> "AuthMiddleware"

NoBody == [ok |-> FALSE, username |-> "", password |-> ""]

\* the values of the Authorization header: absent, a bearer credential, and
\* values of other shapes
AuthorizationHeaders ==
    { <<>> }
    \cup { <<"Bearer", " ", t>> : t \in TokenStrings }
    \cup { <<"Basic", " ", "jwt.admin">>, <<"bearer", " ", "jwt.admin">>, <<"Bearer">>,
           <<"Bearer", " ">>, <<"Bearer", " ", " ", "jwt.admin">>, <<"jwt.admin">> }

\* the values of the token cookie: absent, a token string, one with a space
TokenCookies ==
    { <<>>, <<"jwt.admin">>, <<"jwt.expired">>, <<"jwt.forged">>, <<"garbage">>,
      <<"jwt.admin", " ", "x">> }

\* the bodies of login requests: one BodyParser fails on, and the credentials
LoginBodies ==
    { NoBody }
    \cup { [ok |-> TRUE, username |-> u, password |-> w]
             : u \in {"admin", "guest", "ghost"}, w \in {"pw1", "wrong", ""} }

Requests ==
    { [route |-> <<"POST", "/api/auth/login">>, authorization |-> <<>>, cookie |-> c, body |-> b]
        : c \in {<<>>, <<"jwt.admin">>}, b \in LoginBodies }
    \cup { [route |-> <<"POST", "/api/auth/logout">>, authorization |-> <<>>, cookie |-> c,
            body |-> NoBody] : c \in {<<>>, <<"jwt.admin">>} }
    \cup { [route |-> <<"GET", "/api/auth/verify">>, authorization |-> a, cookie |-> c,
            body |-> NoBody] : a \in AuthorizationHeaders, c \in TokenCookies }

NoRequest == [route |-> <<>>, authorization |-> <<>>, cookie |-> <<>>, body |-> NoBody]
NoCookie == [name |-> ""]
NoResponse == [status |-> "-", message |-> "", token |-> NotAToken, set_cookie |-> NoCookie, user |-> <<>>]

\* c.Status(status).JSON(fiber.Map{"success": false, "message": message})
Failure(status, message) ==
    [status |-> status, message |-> message, token |-> NotAToken, set_cookie |-> NoCookie, user |-> <<>>]

\* the router hands the request to the first handler of its route's chain
serve ==
    /\ hpc = "listening"
    /\ \E r \in Requests :
          /\ request' = r
          /\ hpc' = Chain(r.route)
    /\ UNCHANGED <<cfg, db, now, locals, response>>
    /\ UNCHANGED pipelineVars

NoLocals == [user_id |-> "nil", username |-> "nil", role |-> "nil"]

\* middleware/auth.go, lines 471-519: the handler AuthMiddleware(secret)
\* returns, secret being cfg.JWT.Secret (routes.go, line 687)
AuthMiddleware ==
    /\ hpc = "AuthMiddleware"
    /\ LET header == request.authorization
           authHeader == IF header = <<>> THEN <<"Bearer", " ">> \o request.cookie ELSE header
           parts == SplitSpace(authHeader)
           parsed == ParseWithClaims(parts[2], cfg.secret, now)
       IN  IF header = <<>> /\ request.cookie = <<>>
           THEN /\ response' = Failure("401", "Unauthorized - No token provided")
                /\ hpc' = "responded"
                /\ UNCHANGED locals
           ELSE IF Len(parts) # 2 \/ parts[1] # <<"Bearer">>
           THEN /\ response' = Failure("401", "Invalid authorization header")
                /\ hpc' = "responded"
                /\ UNCHANGED locals
           ELSE IF ~parsed.valid
           THEN /\ response' = Failure("401", "Invalid or expired token")
                /\ hpc' = "responded"
                /\ UNCHANGED locals
           ELSE /\ locals' = [user_id |-> parsed.claims.user_id,
                              username |-> parsed.claims.username,
                              role |-> parsed.claims.role]
                /\ hpc' = "Verify"
                /\ UNCHANGED response
    /\ UNCHANGED <<cfg, db, now, request>>
    /\ UNCHANGED pipelineVars

\* handlers/auth.go, lines 641-655
Verify ==
    /\ hpc = "Verify"
    /\ response' = [status |-> "200", message |-> "", token |-> NotAToken, set_cookie |-> NoCookie,
                    user |-> Claims(locals.user_id, locals.username, locals.role)]
    /\ hpc' = "responded"
    /\ UNCHANGED <<cfg, db, now, request, locals>>
    /\ UNCHANGED pipelineVars

\* lines 588-598: the token Login signs for a row of users; SignedString with
\* HS256 and a []byte key returns no error
IssuedToken(user) ==
    Token("HS256", cfg.secret, {now + TokenHours}, Claims(user.id, user.username, user.role))

\* a cookie with Secure set whatever the environment
LoginCookie_AlwaysSecure(tokenString) ==
    [name |-> "token", value |-> tokenString, http_only |-> TRUE,
     secure |-> TRUE, same_site |-> "Lax", max_age |-> "86400"]

\* lines 606-614: the cookie Login sets
LoginCookie(tokenString) ==
    [name |-> "token", value |-> tokenString, http_only |-> TRUE,
     secure |-> cfg.env = "production", same_site |-> "Lax", max_age |-> "86400"]

\* handlers/auth.go, lines 551-625
Login ==
    /\ hpc = "Login"
    /\ LET req == request.body
           q == QueryRow(db, req.username)
       IN  response' =
              IF ~req.ok THEN Failure("400", "Invalid request body")
              ELSE IF q.err = "ErrNoRows" THEN Failure("401", "Invalid credentials")
              ELSE IF q.err # "nil" THEN Failure("500", "Database error")
              ELSE IF ~CompareHashAndPassword(q.row.password_hash, req.password)
              THEN Failure("401", "Invalid credentials")
              ELSE [status |-> "200", message |-> "", token |-> IssuedToken(q.row),
                    set_cookie |-> LoginCookie(IssuedToken(q.row)),
                    user |-> Claims(q.row.id, q.row.username, q.row.role)]
    /\ hpc' = "responded"
    /\ UNCHANGED <<cfg, db, now, request, locals>>
    /\ UNCHANGED pipelineVars

\* handlers/auth.go, lines 627-639
Logout ==
    /\ hpc = "Logout"
    /\ response' = [status |-> "200", message |-> "Logged out successfully", token |-> NotAToken,
                    set_cookie |-> [name |-> "token", value |-> NotAToken, http_only |-> TRUE,
                                    secure |-> FALSE, same_site |-> "", max_age |-> "-1"],
                    user |-> <<>>]
    /\ hpc' = "responded"
    /\ UNCHANGED <<cfg, db, now, request, locals>>
    /\ UNCHANGED pipelineVars

ServerNext ==
    \/ serve
    \/ AuthMiddleware
    \/ Verify
    \/ Login
    \/ Logout

\* the server not started
ServerDown ==
    /\ cfg \in {c \in Configs : c.env = "development"}
    /\ db = [up |-> TRUE, users |-> {}]
    /\ now = 100
    /\ request = NoRequest
    /\ hpc = "down"
    /\ locals = NoLocals
    /\ response = NoResponse

NoResult ==
    [routes |-> <<>>, controllers |-> <<>>, middleware |-> <<>>, services |-> <<>>,
     database_tables |-> <<>>, dependencies |-> JObj(<<>>, <<>>)]

NoDisk == [exists |-> FALSE, text |-> <<>>]

\* both programs about to run, nothing extracted, no backend-go
InitRest ==
    /\ pc = "main"
    /\ routes = <<>> /\ controllers = <<>> /\ middleware = <<>> /\ services = <<>>
    /\ tables = <<>> /\ deps = JObj(<<>>, <<>>)
    /\ result = NoResult
    /\ gpc = "main"
    /\ module_name = <<>>
    /\ analysis = JLit(<<>>)
    /\ out_dirs = {}
    /\ out_files = <<>>
    /\ exit_code = [analyzer |-> "-", generator |-> "-"]
    /\ console = <<>>

InitExtract ==
    /\ fs \in Trees
    /\ disk = NoDisk
    /\ out_writable = TRUE
    /\ InitRest
    /\ ServerDown

\* the extractor alone, on every tree
SpecExtract == InitExtract /\ [][AnalyzerNext]_vars

\* a tree whose files hold several statements each
RichTree ==
    [TypicalTree EXCEPT
       !.routes = [exists |-> TRUE, files |-> <<
            File(RouteStems[1],
                 << RouteStmt("fastify", "get", TRUE, <<"auth", "admin">>, <<"h">>),
                    RouteStmt("fastify", "get", FALSE, <<>>, <<"AreaController", ".", "list">>) >>),
            File(<<"auth">>,
                 << RouteStmt("router", "get", FALSE, <<>>, <<"AreaController", ".", "list">>),
                    RouteStmt("fastify", "put", TRUE, <<>>, <<"h">>) >>) >>],
       !.controllers = [exists |-> TRUE, files |-> <<
            File(ControllerStems[1],
                 << ExportStmt("function", TRUE, "login"), ExportStmt("const", TRUE, "logout"),
                    ExportStmt("function", FALSE, "login") >>) >>],
       !.services = [exists |-> TRUE, files |-> <<
            File(ServiceStems[1],
                 << ExportStmt("class", FALSE, "Store"), ExportStmt("const", FALSE, "logout") >>) >>],
       !.package = TextFile(Dumps(JObj(<< <<"name">>, <<"dependencies">> >>,
                        << JStr(<<"backend">>),
                           JObj(<< <<"fastify">>, <<"bcrypt">> >>,
                                << JStr(<<"^4.24.0">>), JStr(<<"^5.1.1">>) >>) >>)))]

\* the trees of the runs of both programs
SampleTrees ==
    { EmptyTree, TypicalTree, RichTree,
      [TypicalTree EXCEPT !.migrations = AbsentDir],
      [TypicalTree EXCEPT !.services = [exists |-> TRUE, files |-> <<Unreadable(ServiceStems[1])>>]],
      [RichTree EXCEPT !.package = TextFile(Dumps(JObj(<< <<"dependencies">> >>,
                                              << JArr(<< JStr(<<"fastify">>) >>) >>)))] }

\* analysis_result.json as an earlier run or an editor left it
PriorDisks ==
    { NoDisk,
      [exists |-> TRUE, text |-> Dumps(AnalysisData(NoResult))],
      [exists |-> TRUE, text |-> Dumps(JObj(<< <<"routes">> >>, << JArr(<<>>) >>))],
      [exists |-> TRUE, text |-> Dumps(JArr(<<>>))],
      [exists |-> TRUE, text |-> <<>>] }

Init ==
    /\ fs \in SampleTrees
    /\ disk \in PriorDisks
    /\ out_writable \in BOOLEAN
    /\ InitRest
    /\ ServerDown

Next == AnalyzerNext \/ GeneratorNext

\* the two programs, run one after the other
Spec == Init /\ [][Next]_vars

\* the server started with a configuration and a database, at some hour
InitServer ==
    /\ fs = EmptyTree
    /\ disk = NoDisk
    /\ out_writable = TRUE
    /\ InitRest
    /\ cfg \in Configs
    /\ db \in Databases
    /\ now \in {100, 110}
    /\ request = NoRequest
    /\ hpc = "listening"
    /\ locals = NoLocals
    /\ response = NoResponse

\* the emitted server serving a request
SpecServer == InitServer /\ [][ServerNext]_vars

(***************************************************************************)
(* Properties of the extractor, checked on SpecExtract.                    *)
(***************************************************************************)
\* the categories kept in directories
DirCategories == {"routes", "controllers", "middleware", "services", "migrations"}

\* the local of analyze() that holds a category's extraction
LocalOf(c) ==
    CASE c = "routes" -> routes
      [] c = "controllers" -> controllers
      [] c = "middleware" -> middleware
      [] c = "services" -> services
      [] c = "migrations" -> tables

\* no file of the tree is one that the extractor cannot read or parse
SoundTree ==
    /\ \A c \in DirCategories : \A j \in 1..Len(fs[c].files) : fs[c].files[j].readable
    /\ fs.setup.exists /\ fs.migrations.exists => fs.setup.readable
    /\ fs.package.exists =>
          /\ fs.package.readable
          /\ Loads(fs.package.content).ok
          /\ Loads(fs.package.content).val.t = "obj"
          /\ LET d == DictGet(Loads(fs.package.content).val, <<"dependencies">>, JObj(<<>>, <<>>))
             IN  d.t = "obj"

\* analyze() has returned
Returned == pc \in {"print_summary", "save_analysis", "done"}

\* C1: an absent category directory, or an absent manifest, never makes
\* analyze() raise: on a tree whose present files are all sound the run never
\* ends in an exception; the local and the returned field of an absent
\* category are the empty collection; and the present categories of the
\* returned model hold what is extracted from their own directories
C1_AbsentCategoryIsEmpty ==
    /\ SoundTree => pc # "raised"
    /\ \A c \in DirCategories : ~fs[c].exists => LocalOf(c) = <<>>
    /\ ~fs.package.exists => deps = JObj(<<>>, <<>>)
    /\ Returned =>
          /\ ~fs.routes.exists => result.routes = <<>>
          /\ ~fs.controllers.exists => result.controllers = <<>>
          /\ ~fs.middleware.exists => result.middleware = <<>>
          /\ ~fs.services.exists => result.services = <<>>
          /\ ~fs.migrations.exists => result.database_tables = <<>>
          /\ ~fs.package.exists => result.dependencies = JObj(<<>>, <<>>)
          /\ fs.routes.exists => result.routes = RoutesOfDir(fs.routes)
          /\ fs.controllers.exists =>
                result.controllers \in ModulesOfDir(fs.controllers, "controllers", controller_patterns)
          /\ fs.middleware.exists => result.middleware = MiddlewareOfDir(fs.middleware)
          /\ fs.services.exists =>
                result.services \in ModulesOfDir(fs.services, "services", service_patterns)
          /\ fs.migrations.exists =>
                result.database_tables
                   \in TableLists(TablesOfDir(fs.migrations) \o TablesOfSetup(fs.setup))
          /\ fs.package.exists =>
                result.dependencies
                   = DictGet(Loads(fs.package.content).val, <<"dependencies">>, JObj(<<>>, <<>>))

\* C1 happens: a finished run on a tree without package.json, whose model has
\* no dependencies and the routes, controllers and tables of the tree
C1_Witness ==
    /\ pc = "done"
    /\ ~fs.package.exists
    /\ result.dependencies = JObj(<<>>, <<>>)
    /\ Len(result.routes) > 0 /\ Len(result.controllers) > 0
    /\ Len(result.database_tables) > 0

\* the files of a directory that read_text() succeeds on
ReadableOnly(dir) ==
    [exists |-> dir.exists, files |-> SelectSeq(dir.files, LAMBDA f : f.readable)]

\* a manifest that parses holds a dict whose "dependencies" is a dict
ManifestShaped ==
    fs.package.exists /\ fs.package.readable /\ Loads(fs.package.content).ok =>
       /\ Loads(fs.package.content).val.t = "obj"
       /\ DictGet(Loads(fs.package.content).val, <<"dependencies">>, JObj(<<>>, <<>>)).t = "obj"

\* C2 as stated: a file whose read fails, or a manifest that is not valid
\* JSON, is skipped: the run does not end in an exception, and the returned
\* model holds what the readable files of each category give (no
\* dependencies for a manifest that cannot be read or parsed)
C2_UnreadableFileSkipped ==
    /\ ManifestShaped => pc # "raised"
    /\ Returned =>
          /\ result.routes = RoutesOfDir(ReadableOnly(fs.routes))
          /\ result.middleware = MiddlewareOfDir(ReadableOnly(fs.middleware))
          /\ fs.controllers.exists =>
                result.controllers
                   \in ModulesOfDir(ReadableOnly(fs.controllers), "controllers", controller_patterns)
          /\ fs.services.exists =>
                result.services
                   \in ModulesOfDir(ReadableOnly(fs.services), "services", service_patterns)
          /\ ~(fs.package.exists /\ fs.package.readable /\ Loads(fs.package.content).ok) =>
                result.dependencies = JObj(<<>>, <<>>)

\* analyze_routes has just returned the routes of a routes directory
RoutesExtracted ==
    /\ pc = "analyze_controllers"
    /\ fs.routes.exists
    /\ AllReadable(fs.routes)

RECURSIVE SumSeq(_)
SumSeq(ns) == IF ns = <<>> THEN 0 ELSE Head(ns) + SumSeq(Tail(ns))

\* the matches of all the route patterns over a file's text, pattern after
\* pattern, each pattern's matches left to right
MatchesOfFile(file) ==
    Flatten([p \in 1..Len(route_patterns) |-> RouteFindIter(route_patterns[p], file.content, 1)])

MatchCounts(dir) == [j \in 1..Len(dir.files) |-> Len(MatchesOfFile(dir.files[j]))]

\* the Routes appended while file j of the routes directory was read: those
\* after the Routes of the files before it
RoutesFrom(j) ==
    LET before == SumSeq(SubSeq(MatchCounts(fs.routes), 1, j - 1))
    IN  SubSeq(routes, before + 1, before + MatchCounts(fs.routes)[j])

\* C3: the routes list has one Route per non-overlapping match of every route
\* pattern over every file: its length is the sum of the files' match counts,
\* and the Routes of a file carry, in order, the method and path of the
\* file's matches, a repeated method and path included
C3_OneRoutePerMatch ==
    RoutesExtracted =>
       /\ Len(routes) = SumSeq(MatchCounts(fs.routes))
       /\ \A j \in 1..Len(fs.routes.files) :
             LET ms == MatchesOfFile(fs.routes.files[j])
             IN  \A k \in 1..Len(ms) :
                    /\ RoutesFrom(j)[k].method = Upper(ms[k].method)
                    /\ RoutesFrom(j)[k].path = ms[k].path

\* C3 happens: two files were read and the list holds two Routes of the same
\* method, path and handler
C3_Witness ==
    /\ RoutesExtracted
    /\ Len(fs.routes.files) >= 2
    /\ \E a, b \in 1..Len(routes) :
          /\ a < b
          /\ routes[a].method = routes[b].method
          /\ routes[a].path = routes[b].path
          /\ routes[a].handler = routes[b].handler

\* the registrations of a file that name a handler
Registrations(file) == {file.stmts[i] : i \in {n \in 1..Len(file.stmts) : file.stmts[n].handler # <<>>}}

\* C4 as stated: the handler of every Route is the handler argument of a
\* registration of its file with the Route's method and path, with or
\* without an options object between path and handler
C4_HandlerIsArgument ==
    RoutesExtracted =>
       \A j \in 1..Len(fs.routes.files) :
          \A k \in 1..Len(RoutesFrom(j)) :
             \E st \in Registrations(fs.routes.files[j]) :
                /\ RoutesFrom(j)[k].method = Upper(st.method)
                /\ RoutesFrom(j)[k].path = st.path
                /\ RoutesFrom(j)[k].handler = st.handler

\* the identifiers of the preHandler lists of a file, in text order
ListedIdentifiers(file) ==
    Flatten([i \in 1..Len(file.stmts) |->
               IF file.stmts[i].opts
               THEN [m \in 1..Len(file.stmts[i].mws) |-> <<file.stmts[i].mws[m]>>]
               ELSE <<>>])

\* C5 as stated: every Route of a file whose text holds preHandler has the
\* identifiers listed in the file's preHandler lists as its middleware, and
\* every Route of a file without it has none
C5_FileScopedMiddleware ==
    RoutesExtracted =>
       \A j \in 1..Len(fs.routes.files) :
          \A k \in 1..Len(RoutesFrom(j)) :
             RoutesFrom(j)[k].middleware
                = IF \E i \in 1..Len(fs.routes.files[j].content) :
                        fs.routes.files[j].content[i] = "preHandler"
                  THEN ListedIdentifiers(fs.routes.files[j])
                  ELSE <<>>

\* the base name with 'Routes' stripped from its end and 'Controller' appended
StripAppend(stem) ==
    IF stem # <<>> /\ stem[Len(stem)] = "Routes"
    THEN Append(SubSeq(stem, 1, Len(stem) - 1), "Controller")
    ELSE Append(stem, "Controller")

\* C6 as stated: the controller of every Route is the base name of its file
\* with the suffix 'Routes' stripped and 'Controller' appended
C6_SuffixStrippedAndAppended ==
    RoutesExtracted =>
       \A j \in 1..Len(fs.routes.files) :
          \A k \in 1..Len(RoutesFrom(j)) :
             RoutesFrom(j)[k].controller = StripAppend(fs.routes.files[j].stem)

\* C6, amended: the controller of every Route is the base name of its file
\* with every occurrence of 'Routes' replaced by 'Controller' (a base name
\* without 'Routes' is kept as it is); it is the same for every Route of the
\* file, whatever controllers the tree holds
C6_EveryOccurrenceReplaced ==
    RoutesExtracted =>
       \A j \in 1..Len(fs.routes.files) :
          \A k \in 1..Len(RoutesFrom(j)) :
             LET stem == fs.routes.files[j].stem
                 c == RoutesFrom(j)[k].controller
             IN  /\ Len(c) = Len(stem)
                 /\ \A n \in 1..Len(stem) :
                       c[n] = IF stem[n] = "Routes" THEN "Controller" ELSE stem[n]

\* C6 happens: a Route of a file whose base name holds 'Routes' twice, and no
\* controller of the Route's controller name in the tree
C6_Witness ==
    /\ Returned
    /\ \E n \in 1..Len(result.routes) :
          /\ result.routes[n].controller = <<"Controller", "V2", "Controller">>
          /\ \A m \in 1..Len(result.controllers) :
                result.controllers[m].name # result.routes[n].controller

\* a sequence without a repeated element
NoDuplicates(xs) == \A a, b \in 1..Len(xs) : a # b => xs[a] # xs[b]

\* C7: no symbol occurs twice in the functions of a controller or of a
\* service, and no table occurs twice in the tables, in the locals of
\* analyze() and in the model it returns
C7_NoDuplicates ==
    /\ \A n \in 1..Len(controllers) : NoDuplicates(controllers[n].functions)
    /\ \A n \in 1..Len(services) : NoDuplicates(services[n].functions)
    /\ NoDuplicates(tables)
    /\ \A n \in 1..Len(result.controllers) : NoDuplicates(result.controllers[n].functions)
    /\ \A n \in 1..Len(result.services) : NoDuplicates(result.services[n].functions)
    /\ NoDuplicates(result.database_tables)

\* C7 happens: the returned model of a tree in which two patterns match the
\* same symbol of a controller file and two files define the same table
C7_Witness ==
    /\ Returned
    /\ \E j \in 1..Len(fs.controllers.files) :
          ~NoDuplicates(ExportedFunctions(controller_patterns, fs.controllers.files[j].content))
    /\ ~NoDuplicates(TablesOfDir(fs.migrations) \o TablesOfSetup(fs.setup))
    /\ Len(result.controllers) > 0
    /\ Len(result.database_tables) > 0

\* C14 as stated: a registration that binds a method and a path and names no
\* handler yields a Route of that method and path whose handler is "unknown"
C14_UnknownHandlerSentinel ==
    RoutesExtracted =>
       \A j \in 1..Len(fs.routes.files) :
          \A n \in 1..Len(fs.routes.files[j].stmts) :
             LET st == fs.routes.files[j].stmts[n]
             IN  st.handler = <<>> =>
                    \E k \in 1..Len(RoutesFrom(j)) :
                       /\ RoutesFrom(j)[k].method = Upper(st.method)
                       /\ RoutesFrom(j)[k].path = st.path
                       /\ RoutesFrom(j)[k].handler = <<"unknown">>

\* analyze_controllers has just returned the controllers of a directory
ControllersExtracted ==
    /\ pc = "analyze_middleware"
    /\ fs.controllers.exists
    /\ AllReadable(fs.controllers)

\* C15 as stated: the functions of a controller hold the name of every
\* symbol its file exports as a function or as a const, async or not
C15_AsyncMakesNoDifference ==
    ControllersExtracted =>
       \A j \in 1..Len(fs.controllers.files) :
          \A n \in 1..Len(fs.controllers.files[j].stmts) :
             LET st == fs.controllers.files[j].stmts[n]
             IN  st.form \in {"function", "const"} =>
                    \E k \in 1..Len(controllers[j].functions) :
                       controllers[j].functions[k] = st.name

\* C16 as stated: once analyze_database_schema has returned, every table that
\* a CREATE TABLE statement of database/setup.js defines is among the tables,
\* the migrations directory present or not
C16_SetupTablesAlwaysCollected ==
    pc = "analyze_dependencies" /\ fs.setup.exists /\ fs.setup.readable =>
       \A t \in Range(FindAll(table_pattern, fs.setup.content, 1)) :
          \E k \in 1..Len(tables) : tables[k] = t

(***************************************************************************)
(* Properties of the two programs run one after the other, checked on Spec.*)
(***************************************************************************)
\* the value under a key of a loaded dict
Field(d, key) == DictGet(d, <<key>>, JLit(<<"missing">>))

\* a loaded value is the list of strs xs
IsStrList(v, xs) == v = JArr([i \in 1..Len(xs) |-> JStr(xs[i])])

\* a loaded value is the list of the words ws
IsWordList(v, ws) == v = JArr([i \in 1..Len(ws) |-> JStr(<<ws[i]>>)])

\* the synthesizer has loaded the artifact that this run of the extractor saved
LoadedAfterSave == pc = "done" /\ gpc \notin {"main", "__init__"}

\* C8: the value the synthesizer loads from the artifact save_analysis wrote
\* is a dict of the six fields, each equal to the field of the model that was
\* saved: every route with its method, path, handler, middleware and
\* controller, every controller and service with its name, file and
\* functions, every middleware with its name, file and description, the
\* tables and the dependencies
C8_RoundTrip ==
    LoadedAfterSave =>
       /\ analysis.t = "obj"
       /\ analysis.k = << <<"routes">>, <<"controllers">>, <<"middleware">>, <<"services">>,
                          <<"database_tables">>, <<"dependencies">> >>
       /\ LET rs == Field(analysis, "routes")
          IN  /\ rs.t = "arr" /\ Len(rs.a) = Len(result.routes)
              /\ \A n \in 1..Len(rs.a) :
                    /\ rs.a[n].t = "obj" /\ Len(rs.a[n].k) = 5
                    /\ Field(rs.a[n], "method") = JStr(<<result.routes[n].method>>)
                    /\ Field(rs.a[n], "path") = JStr(result.routes[n].path)
                    /\ Field(rs.a[n], "handler") = JStr(result.routes[n].handler)
                    /\ IsStrList(Field(rs.a[n], "middleware"), result.routes[n].middleware)
                    /\ Field(rs.a[n], "controller") = JStr(result.routes[n].controller)
       /\ \A f \in {"controllers", "services"} :
             LET cs == Field(analysis, f)
             IN  /\ cs.t = "arr" /\ Len(cs.a) = Len(result[f])
                 /\ \A n \in 1..Len(cs.a) :
                       /\ cs.a[n].t = "obj" /\ Len(cs.a[n].k) = 3
                       /\ Field(cs.a[n], "name") = JStr(result[f][n].name)
                       /\ Field(cs.a[n], "file") = JStr(result[f][n].file)
                       /\ IsWordList(Field(cs.a[n], "functions"), result[f][n].functions)
       /\ LET ms == Field(analysis, "middleware")
          IN  /\ ms.t = "arr" /\ Len(ms.a) = Len(result.middleware)
              /\ \A n \in 1..Len(ms.a) :
                    /\ ms.a[n].t = "obj" /\ Len(ms.a[n].k) = 3
                    /\ Field(ms.a[n], "name") = JStr(result.middleware[n].name)
                    /\ Field(ms.a[n], "file") = JStr(result.middleware[n].file)
                    /\ Field(ms.a[n], "description") = JStr(result.middleware[n].description)
       /\ IsWordList(Field(analysis, "database_tables"), result.database_tables)
       /\ Field(analysis, "dependencies") = result.dependencies

\* C8 happens: the synthesizer has loaded a saved model of several routes, one
\* with middleware, a controller of several functions, a middleware whose
\* description holds a quote, a table and dependencies
C8_Witness ==
    /\ LoadedAfterSave
    /\ gpc = "generate_all"
    /\ Len(result.routes) >= 2
    /\ \E n \in 1..Len(result.routes) : Len(result.routes[n].middleware) >= 2
    /\ \E n \in 1..Len(result.controllers) : Len(result.controllers[n].functions) >= 2
    /\ \E n \in 1..Len(result.middleware) :
          \E i \in 1..Len(result.middleware[n].description) :
             result.middleware[n].description[i] = "\""
    /\ Len(result.database_tables) >= 1
    /\ Len(result.dependencies.k) >= 2

\* C9 as stated: the synthesizer started without an artifact ends in failure,
\* with the diagnostic printed and no directory or file of backend-go created
C9_MissingArtifactIsFatal ==
    gpc = "returned" =>
       /\ exit_code.generator = "1"
       /\ \E i \in 1..Len(console) : console[i].msg = "Analysis file not found"
       /\ out_dirs = {}
       /\ out_files = <<>>

\* the directories of backend-go after create_directory_structure
Skeleton ==
    { <<>>, <<"cmd">>, <<"cmd", "server">>, <<"internal">>, <<"internal", "config">>,
      <<"internal", "database">>, <<"internal", "models">>, <<"internal", "middleware">>,
      <<"internal", "handlers">>, <<"internal", "routes">>, <<"internal", "services">>,
      <<"internal", "utils">>, <<"pkg">>, <<"pkg", "logger">>, <<"migrations">> }

\* the persistence bootstrap of the five tables
FiveTableBootstrap ==
    << "package database", "func Connect", "func RunMigrations",
       "CREATE TABLE IF NOT EXISTS users", "CREATE TABLE IF NOT EXISTS areas",
       "CREATE TABLE IF NOT EXISTS cameras", "CREATE TABLE IF NOT EXISTS audit_logs",
       "CREATE TABLE IF NOT EXISTS feedbacks" >>

\* the artifacts that do not depend on the model, each with the text it has
\* for the module identifier m
FixedArtifacts(m) ==
    [q \in { <<"internal", "config", "config.go">>, <<"internal", "database", "database.go">>,
             <<"internal", "middleware", "auth.go">>, <<"internal", "handlers", "auth.go">> } |->
        CASE q = <<"internal", "config", "config.go">> -> ConfigGo
          [] q = <<"internal", "database", "database.go">> -> FiveTableBootstrap
          [] q = <<"internal", "middleware", "auth.go">> -> AuthMiddlewareGo
          [] q = <<"internal", "handlers", "auth.go">> -> AuthHandlerGo(m)]

\* C10: whatever model was loaded, the directories of backend-go are those of
\* the skeleton once create_directory_structure has run, every configuration,
\* bootstrap, authentication middleware and handler file written holds the
\* text fixed by the module identifier alone (the bootstrap that of the five
\* tables), and a finished run has written them all
C10_FixedArtifacts ==
    /\ out_dirs \in {{}, Skeleton}
    /\ gpc \notin {"main", "__init__", "generate_all", "create_directory_structure",
                   "returned", "raised"} => out_dirs = Skeleton
    /\ \A q \in DOMAIN out_files \cap DOMAIN FixedArtifacts(module_name) :
          out_files[q] = FixedArtifacts(module_name)[q]
    /\ gpc = "done" => DOMAIN FixedArtifacts(module_name) \subseteq DOMAIN out_files

\* C10 happens: a finished synthesis from a model that names no table
C10_Witness ==
    /\ gpc = "done"
    /\ analysis.t = "obj"
    /\ DictGet(analysis, <<"database_tables">>, JArr(<<>>)).a = <<>>
    /\ <<"internal", "database", "database.go">> \in DOMAIN out_files

\* the table names of the loaded model
ModelTables ==
    IF analysis.t = "obj" /\ DictGet(analysis, <<"database_tables">>, JArr(<<>>)).t = "arr"
    THEN LET ts == DictGet(analysis, <<"database_tables">>, JArr(<<>>)).a
         IN  {ts[i].s : i \in 1..Len(ts)}
    ELSE {}

\* the file at path was written and declares the record type
Declares(path, type) ==
    /\ path \in DOMAIN out_files
    /\ \E i \in 1..Len(out_files[path]) : out_files[path][i] = type

\* generate_models has returned
ModelsGenerated ==
    gpc \in {"generate_middleware", "generate_handlers", "generate_routes", "generate_services",
             "generate_dockerfile", "generate_makefile", "generated", "done"}

\* C11 as stated: once generate_models has returned, the User record type is
\* declared exactly when the model's tables hold 'users', the Camera record
\* type exactly when they hold 'cameras', and internal/models holds no file
\* other than user.go and camera.go
C11_RecordTypesWhenTablePresent ==
    ModelsGenerated =>
       /\ Declares(<<"internal", "models", "user.go">>, "type User") <=> <<"users">> \in ModelTables
       /\ Declares(<<"internal", "models", "camera.go">>, "type Camera")
             <=> <<"cameras">> \in ModelTables
       /\ \A q \in DOMAIN out_files :
             Len(q) = 3 /\ q[1] = "internal" /\ q[2] = "models" => q[3] \in {"user.go", "camera.go"}

\* the artifact holds a model: a dict, with its categories or without them
ArtifactHoldsModel ==
    /\ disk.exists
    /\ Loads(disk.text).ok
    /\ Loads(disk.text).val.t = "obj"

\* C12: a synthesis from an artifact that holds a model ends in an exception
\* only where the output cannot be created; where it can, the run goes on to
\* its end with status 0 and every file written
C12_NeverFailsOnModelContent ==
    /\ gpc = "raised" /\ ArtifactHoldsModel => ~out_writable
    /\ gpc = "done" => /\ exit_code.generator = "0"
                       /\ Cardinality(DOMAIN out_files) = 12

\* C12 happens: a finished synthesis from a model without "database_tables"
C12_Witness ==
    /\ gpc = "done"
    /\ ArtifactHoldsModel
    /\ \A i \in 1..Len(analysis.k) : analysis.k[i] # <<"database_tables">>
    /\ out_writable

(***************************************************************************)
(* Properties of the emitted server, checked on SpecServer.                *)
(***************************************************************************)
\* the token string decodes to a token of an HMAC method, signed with the
\* configured secret, that has not expired
Accepted(t) ==
    /\ Decode(t).wellformed
    /\ Decode(t).alg \in {"HS256", "HS384", "HS512"}
    /\ Decode(t).key = cfg.secret
    /\ \A e \in Decode(t).exp : e > now

\* the request presents t as a bearer credential in the Authorization header
\* or, the header absent, as the token cookie
Presented(t) ==
    \/ request.authorization = <<"Bearer", " ", t>>
    \/ request.authorization = <<>> /\ request.cookie = <<t>>

VerifyRoute == <<"GET", "/api/auth/verify">>
LoginRoute == <<"POST", "/api/auth/login">>

\* the handler after the middleware is about to run, or has run
DownstreamInvoked ==
    \/ hpc = "Verify"
    \/ hpc = "responded" /\ response.status = "200"

\* C13: on the protected route, the downstream handler runs only for a
\* request that presents, in the Authorization header as a bearer credential
\* or (the header absent) in the token cookie, a token valid under the
\* configured secret, and then the context holds the token's user_id,
\* username and role; a request without header and cookie, or without a
\* valid credential, is answered 401 and the downstream handler does not run
C13_AuthMiddlewareGuards ==
    request.route = VerifyRoute =>
       /\ DownstreamInvoked =>
             \E t \in TokenStrings :
                /\ Presented(t)
                /\ Accepted(t)
                /\ locals = [user_id |-> Decode(t).claims.user_id,
                             username |-> Decode(t).claims.username,
                             role |-> Decode(t).claims.role]
       /\ hpc = "responded" /\ ~(\E t \in TokenStrings : Presented(t) /\ Accepted(t)) =>
             /\ response.status = "401"
             /\ response.user = <<>>
             /\ locals = NoLocals

\* C13 happens: the downstream handler is about to run for a request without
\* Authorization header whose token cookie holds a valid token
C13_Witness ==
    /\ hpc = "Verify"
    /\ request.route = VerifyRoute
    /\ request.authorization = <<>>
    /\ request.cookie = <<"jwt.admin">>
    /\ locals.username = "admin"

\* the response issues a token or sets a token cookie that holds one
Issues ==
    \/ response.token # NotAToken
    \/ response.set_cookie # NoCookie /\ response.set_cookie.value # NotAToken

\* C17: the login handler issues a token and the cookie only when the users
\* table holds a row of the request's username whose hash is that of the
\* request's password; an unknown username or a password mismatch is
\* answered 401 with no token and no cookie; the token issued is signed with
\* the configured secret, carries the row's identity and expires 24 hours
\* after now; the cookie holds the token and is Secure exactly when the
\* configured environment is "production"
C17_LoginIssuesAfterCheck ==
    request.route = LoginRoute /\ hpc = "responded" =>
       LET b == request.body
           rows == {u \in db.users : u.username = b.username}
           matching == {u \in rows : u.password_hash = <<"bcrypt", b.password>>}
       IN  /\ Issues => b.ok /\ db.up /\ matching # {}
           /\ b.ok /\ db.up /\ matching = {} =>
                 /\ response.status = "401"
                 /\ response.token = NotAToken
                 /\ response.set_cookie = NoCookie
           /\ Issues =>
                 /\ response.status = "200"
                 /\ response.token.key = cfg.secret
                 /\ response.token.exp = {now + 24}
                 /\ \E u \in matching : response.token.claims = Claims(u.id, u.username, u.role)
                 /\ response.set_cookie.name = "token"
                 /\ response.set_cookie.value = response.token
                 /\ response.set_cookie.secure <=> cfg.env = "production"

\* C17 happens: a login with the right password, answered with a token and a
\* cookie that is not Secure, the environment being "Production"
C17_Witness ==
    /\ request.route = LoginRoute
    /\ hpc = "responded"
    /\ response.status = "200"
    /\ response.token.wellformed
    /\ cfg.env = "Production"
    /\ ~response.set_cookie.secure

====
